---- MODULE Spec2Model ----
(***************************************************************************)
(* SmartGen Cloud Plus bridge: the signed HTTP client with its             *)
(* re-login-on-auth-failure (smartgen_cloud_bridge.py), the polling loop   *)
(* with backoff and heartbeat (main.py) and the response normalizers       *)
(* (main.py, smartgen_client.py, smartgen_bridge.py).                      *)
(***************************************************************************)
EXTENDS Integers, Sequences, FiniteSets, TLC

VARIABLES
    \* SmartGenCloudBridge: configuration and session
    username, password, token, utoken,
    \* SmartGenCloudBridge: the _post_encrypted frames of the call in progress
    stack,
    \* outcome of the last finished top-level call
    result,
    \* history of the top-level call in progress
    nRelogin, nSent, allRejected,
    \* SmartGenCloudBridge: the clock in seconds, and the last request handed
    \* to requests.post with the time of that call
    clock, request,
    \* main.SmartGenBridge: the clock, the loop's fields and its position
    now, last_heartbeat, failure_count, poll_interval, endT, remaining, delay, ppc,
    \* main.SmartGenBridge: the exception that left the loop, if any
    escaped,
    \* history of the poll cycle in progress
    fcBefore, cycle, chunks,
    \* what fetch_snapshot returned in the cycle in progress, and what
    \* publish_device_state was called with
    fetched, published,
    \* the normalizers: the operation under test, its input and its output
    nKind, nIn, nOut,
    \* the session store: the client that owns the session, the configured
    \* token_file, the content of that file, and the last operations on it
    client, token_file, file, sop,
    \* two callers of one SmartGenCloudBridge: where the one is inside
    \* _update_tokens and with which arguments, where the other is inside
    \* _authorized_payload and what it has read, the sessions that the
    \* updates have left, and the number of updates
    upc, update, rpc, reading, sessions, nUpdates,
    \* smartgen_bridge: the position of the loop and of get_status, the clock
    \* in seconds, the result of get_status, and the requests of the poll
    \* cycle in progress with their outcomes
    lpc, attempt, ltime, lstatus, posts,
    \* smartgen_bridge: the configured genset_address, the topic of the last
    \* message handed to on_message, and the send_action calls it made
    genset_address, topic, acted,
    \* smartgen_client: the messages handed to logging, and the last call of
    \* login with the session before it and the exception it ended with
    logs, last_login

authVars == <<username, password, token, utoken, stack, result,
              nRelogin, nSent, allRejected, clock, request>>

pollVars == <<now, last_heartbeat, failure_count, poll_interval, endT, remaining,
              delay, ppc, escaped, fcBefore, cycle, chunks, fetched, published>>

normVars == <<nKind, nIn, nOut>>

sessVars == <<client, token_file, file, sop>>

concVars == <<upc, update, rpc, reading, sessions, nUpdates>>

cmdVars == <<genset_address, topic, acted>>

retryVars == <<lpc, attempt, ltime, lstatus, posts, cmdVars>>

logVars == <<logs, last_login>>

restVars == <<concVars, retryVars, logVars>>

vars == <<authVars, pollVars, normVars, sessVars, restVars>>

\* what the steps of one component leave alone
notAuthVars == <<pollVars, normVars, sessVars, restVars>>
notPollVars == <<authVars, normVars, sessVars, restVars>>
notNormVars == <<authVars, pollVars, sessVars, restVars>>

Min(a, b) == IF a <= b THEN a ELSE b

(***************************************************************************)
(* JSON values as Python sees them: [t |-> type, v |-> value]              *)
(***************************************************************************)
PNone == [t |-> "null", v |-> 0]
PBool(b) == [t |-> "bool", v |-> b]
PInt(n) == [t |-> "int", v |-> n]
\* the float n / 10
PFloat(n) == [t |-> "float", v |-> n]
PStr(s) == [t |-> "str", v |-> s]
PList(q) == [t |-> "list", v |-> q]
PDict(f) == [t |-> "dict", v |-> f]
PRaise(e) == [t |-> "raise", v |-> e]
EmptyMap == [k \in {} |-> PNone]
EmptyDict == PDict(EmptyMap)
EmptyList == PList(<<>>)

IsDict(x) == x.t = "dict"
IsList(x) == x.t = "list"
IsStr(x) == x.t = "str"
IsRaise(x) == x.t = "raise"

\* bool(x)
Truthy(x) ==
    CASE x.t = "null" -> FALSE
      [] x.t = "bool" -> x.v
      [] x.t \in {"int", "float"} -> x.v # 0
      [] x.t = "str" -> x.v # ""
      [] x.t = "list" -> Len(x.v) > 0
      [] x.t = "dict" -> DOMAIN x.v # {}
      [] OTHER -> FALSE

\* a or b
POr(a, b) == IF Truthy(a) THEN a ELSE b

\* d.get(k), of a mapping d
Get(d, k) == IF k \in DOMAIN d.v THEN d.v[k] ELSE PNone

\* d[k] = x
Put(d, k, x) == PDict([j \in DOMAIN d.v \cup {k} |-> IF j = k THEN x ELSE d.v[j]])

\* d.setdefault(k, x)
SetDefault(d, k, x) == IF k \in DOMAIN d.v THEN d ELSE Put(d, k, x)

\* str.lower(), on the strings of the model
Lower(s) ==
    CASE s = "TRUE" -> "true"
      [] s = "On" -> "on"
      [] s = "YES" -> "yes"
      [] OTHER -> s

\* int(s) of a string: the number, or "ValueError"
IntOfStr(s) ==
    CASE s = "0" -> PInt(0)
      [] s = "1" -> PInt(1)
      [] s = "3" -> PInt(3)
      [] OTHER -> PRaise("ValueError")

\* int(x)
PyInt(x) ==
    CASE x.t = "bool" -> PInt(IF x.v THEN 1 ELSE 0)
      [] x.t = "int" -> x
      [] x.t = "str" -> IntOfStr(x.v)
      [] OTHER -> PRaise("TypeError")

(***************************************************************************)
(* Bounds of the model                                                     *)
(***************************************************************************)
\* history counters stop counting here (the code has no such counter)
MaxCount == 3
\* the clock stops here
MaxTime == 200
\* consecutive failed cycles
MaxFailures == 4
\* seconds one fetch_snapshot may take
MaxFetchTime == 2
\* the clock of the cloud bridge stops here
MaxClock == 1
\* seconds that may pass between two readings of the clock that follow
\* each other in _sleep_with_heartbeat
MaxLag == 2

(***************************************************************************)
(* The request signature of smartgen_cloud_bridge.py                       *)
(***************************************************************************)
\* strings of the signature: sequences of characters and of digests
Chr(c) == [t |-> "chr", v |-> c]
SIGN_SECRET == <<Chr("fsh@TRuZ4dvcp5uY")>>

\* the decimal digits
Digits == <<"0", "1", "2", "3", "4", "5", "6", "7", "8", "9">>

\* str(n), of a natural number
RECURSIVE IntToStr(_)
IntToStr(n) ==
    IF n < 10 THEN <<Chr(Digits[n + 1])>>
    ELSE IntToStr(n \div 10) \o <<Chr(Digits[(n % 10) + 1])>>

\* md5_hex(value): a digest that tells any two values apart
md5_hex(value) == <<[t |-> "md5", v |-> value]>>

\* a signature that forgets the login flag
make_x_sign_any_login(timestamp, tok, login) ==
    LET token_value == IF tok = PNone THEN <<>> ELSE tok.v
    IN  IF token_value # <<>>
          THEN md5_hex(token_value \o IntToStr(timestamp)
                         \o md5_hex(token_value \o IntToStr(timestamp) \o SIGN_SECRET))
          ELSE md5_hex(IntToStr(timestamp) \o md5_hex(IntToStr(timestamp) \o SIGN_SECRET))

\* make_x_sign(timestamp, token, login=login)
make_x_sign(timestamp, tok, login) ==
    LET token_value == IF tok = PNone THEN <<>> ELSE tok.v
        inner == md5_hex(token_value \o IntToStr(timestamp) \o SIGN_SECRET)
    IN  IF token_value # <<>>
          THEN md5_hex(token_value \o IntToStr(timestamp) \o inner)
        ELSE IF login
          THEN md5_hex(IntToStr(timestamp) \o md5_hex(IntToStr(timestamp) \o SIGN_SECRET))
        ELSE md5_hex(IntToStr(timestamp) \o SIGN_SECRET)

(***************************************************************************)
(* SmartGenCloudBridge (smartgen_cloud_bridge.py)                          *)
(***************************************************************************)
None == "None"
NoData == [token |-> None, utoken |-> None, isDict |-> FALSE]
NoResp == [status |-> 0, tokInvalid |-> FALSE, data |-> NoData]

\* values a token or utoken takes: empty, configured, issued by a login
Tokens == {"", "t0", "t1", "t2"}
\* what data.get("token") or data.get("accessToken") evaluates to
TokenArgs == {None, "", "t1", "t2"}

Statuses == {200, 401, 500}

\* a response to a request that is not a login
ApiResponses == [status : Statuses, tokInvalid : BOOLEAN, data : {NoData}]

\* a response to /user/login; its "data" may be a mapping carrying tokens
LoginData == {NoData} \cup [token : TokenArgs, utoken : TokenArgs, isDict : {TRUE}]
LoginResponses == [status : Statuses, tokInvalid : BOOLEAN, data : LoginData]

ResponsesFor(login) == IF login THEN LoginResponses ELSE ApiResponses

\* HTTP 401, or a body containing both "token" and "invalid"
IsAuthFailure(resp) == resp.status = 401 \/ resp.tokInvalid

NoResult == [kind |-> "none", exc |-> None, resp |-> NoResp]
Returned(resp) == [kind |-> "returned", exc |-> None, resp |-> resp]
Raised(exc) == [kind |-> "raised", exc |-> exc, resp |-> NoResp]

\* a fresh frame of _post_encrypted(endpoint, payload, token=tokenArg, login=login)
Frame(login, tokenArg, via, payload) ==
    [login |-> login, tokenArg |-> tokenArg, via |-> via, payload |-> payload,
     resp |-> NoResp, at |-> "post"]

\* the payload of login: username and password, no session
LoginPayload == [token |-> None, utoken |-> None]


Top == stack[Len(stack)]
Below == SubSeq(stack, 1, Len(stack) - 1)
SetTop(f) == [stack EXCEPT ![Len(stack)] = f]

Inc(n) == Min(n + 1, MaxCount)

\* no request sent yet
NoSent == [at |-> 0, login |-> FALSE, headers |-> [t |-> "null", v |-> 0],
           retry |-> FALSE, body |-> [t |-> "null", v |-> 0],
           session |-> [t |-> "null", v |-> 0]]

\* a token of the session as make_x_sign and the headers take it
SignToken(tok) == IF tok = None THEN PNone ELSE PStr(IF tok = "" THEN <<>> ELSE <<Chr(tok)>>)

\* a timestamp kept from the request before
TimestampOfLastSend == IF request = NoSent THEN clock ELSE request.at

\* timestamp = int(time.time())
Timestamp == clock

\* token_value = token if token is not None else self.token
token_value(f) == IF f.tokenArg # None THEN f.tokenArg ELSE token

\* _build_headers(token, timestamp, x_sign), the headers that vary
build_headers(tok, timestamp, x_sign) ==
    [x_time |-> IntToStr(timestamp), x_token |-> tok, x_sign |-> x_sign]

\* _post_encrypted, lines 159-165, of the frame f: what requests.post is
\* called with, the session at that time, and whether the call is the one
\* that follows a re-login (lines 168 and 172, token=self.token)
Request(f) ==
    [at |-> clock, login |-> f.login,
     headers |-> build_headers(token_value(f), Timestamp,
                               make_x_sign(Timestamp, SignToken(token_value(f)), f.login)),
     retry |-> (~f.login /\ f.tokenArg # None),
     body |-> f.payload,
     session |-> [token |-> token, utoken |-> utoken]]

\* _update_tokens(token, utoken): the new session
UpdatedToken(tok) == IF tok \notin {None, ""} THEN tok ELSE token
UpdatedUtoken(utok) == IF utok # None THEN utok ELSE utoken

\* login(), after its _post_encrypted returned resp: the session it leaves
TokenAfterLogin(resp) == IF resp.data.isDict THEN UpdatedToken(resp.data.token) ELSE token
UtokenAfterLogin(resp) == IF resp.data.isDict THEN UpdatedUtoken(resp.data.utoken) ELSE utoken

\* a credentials test that forgets the password
HasUsernameOnly == username # ""

\* _auto_refresh_token: the credentials test before login is tried
HasCredentials == username # "" /\ password # ""

\* the test "not login and response.status_code == 401"
Is401Retry(f) == ~f.login /\ f.resp.status = 401
\* the test "not login and 'token' in body_text and 'invalid' in body_text"
IsBodyRetry(f) == ~f.login /\ f.resp.tokInvalid

\* a top-level call of an API operation: _post_encrypted(endpoint, payload)
CallApi ==
    /\ stack = <<>>
    /\ stack' = <<Frame(FALSE, None, "api", [token |-> token, utoken |-> utoken])>>
    /\ result' = NoResult
    /\ nRelogin' = 0 /\ nSent' = 0 /\ allRejected' = TRUE
    /\ UNCHANGED <<username, password, token, utoken, clock, request, notAuthVars>>

\* a top-level call of login(self.username, self.password), as run makes it
CallLogin ==
    /\ stack = <<>>
    /\ nRelogin' = 0 /\ nSent' = 0 /\ allRejected' = TRUE
    /\ IF username = "" \/ password = ""
         THEN /\ result' = Raised("ValueError")
              /\ stack' = <<>>
         ELSE /\ result' = NoResult
              /\ stack' = <<Frame(TRUE, "", "login", LoginPayload)>>
    /\ UNCHANGED <<username, password, token, utoken, clock, request, notAuthVars>>

\* the frame on top returns resp to its caller. A frame that ends in
\* "return self._post_encrypted(...)" hands on whatever the new call returns
\* or raises, so the new call takes its place on the stack.
Return(resp) ==
    CASE Top.via = "api" ->
           /\ result' = Returned(resp)
           /\ stack' = <<>>
           /\ UNCHANGED <<token, utoken>>
      [] Top.via = "login" ->
           /\ token' = TokenAfterLogin(resp)
           /\ utoken' = UtokenAfterLogin(resp)
           /\ result' = Returned(resp)
           /\ stack' = <<>>
      [] OTHER ->
           \* login returned inside _auto_refresh_token, which returns True:
           \* the suspended frame calls itself again with token=self.token
           /\ token' = TokenAfterLogin(resp)
           /\ utoken' = UtokenAfterLogin(resp)
           /\ stack' = [Below EXCEPT ![Len(Below)] =
                          Frame(Below[Len(Below)].login, TokenAfterLogin(resp),
                                Below[Len(Below)].via, Below[Len(Below)].payload)]
           /\ UNCHANGED result

\* the frame on top raises exc to its caller
Raise(exc) ==
    CASE Top.via \in {"api", "login"} ->
           /\ result' = Raised(exc)
           /\ stack' = <<>>
      [] Top.via = "refresh167" ->
           \* _auto_refresh_token catches it and returns False
           /\ stack' = [Below EXCEPT ![Len(Below)].at = "l170"]
           /\ UNCHANGED result
      [] OTHER ->
           /\ stack' = [Below EXCEPT ![Len(Below)].at = "l174"]
           /\ UNCHANGED result

\* lines 157-165: the request is built and requests.post is called, which
\* takes some seconds and ends in a transport failure or a response
Post ==
    /\ stack # <<>> /\ Top.at = "post"
    /\ request' = Request(Top)
    /\ \E d \in 0..1 : clock + d <= MaxClock /\ clock' = clock + d
    /\ \/ /\ Raise("RequestException")
          /\ UNCHANGED <<token, utoken, nRelogin, nSent, allRejected>>
       \/ \E r \in ResponsesFor(Top.login) :
            /\ stack' = SetTop([Top EXCEPT !.resp = r, !.at = "l167"])
            /\ IF Top.login
                 THEN UNCHANGED <<nSent, allRejected>>
                 ELSE /\ nSent' = Inc(nSent)
                      /\ allRejected' = (allRejected /\ IsAuthFailure(r))
            /\ UNCHANGED <<token, utoken, result, nRelogin>>
    /\ UNCHANGED <<username, password, notAuthVars>>

\* _auto_refresh_token called by the frame on top, which goes on at `next`
\* when it returns False
Refresh(via, next) ==
    IF HasCredentials
      THEN /\ stack' = Append(stack, Frame(TRUE, "", via, LoginPayload))
           /\ nRelogin' = Inc(nRelogin)
      ELSE /\ stack' = SetTop([Top EXCEPT !.at = next])
           /\ UNCHANGED nRelogin

\* if not login and response.status_code == 401 and self._auto_refresh_token()
Line167 ==
    /\ stack # <<>> /\ Top.at = "l167"
    /\ IF Is401Retry(Top)
         THEN Refresh("refresh167", "l170")
         ELSE /\ stack' = SetTop([Top EXCEPT !.at = "l170"])
              /\ UNCHANGED nRelogin
    /\ UNCHANGED <<username, password, token, utoken, result, nSent, allRejected,
                   clock, request, notAuthVars>>

\* if not login and "token" in body_text and "invalid" in body_text and ...
Line171 ==
    /\ stack # <<>> /\ Top.at = "l170"
    /\ IF IsBodyRetry(Top)
         THEN Refresh("refresh171", "l174")
         ELSE /\ stack' = SetTop([Top EXCEPT !.at = "l174"])
              /\ UNCHANGED nRelogin
    /\ UNCHANGED <<username, password, token, utoken, result, nSent, allRejected,
                   clock, request, notAuthVars>>

\* response.raise_for_status(); return self._decode_response(response)
Line174 ==
    /\ stack # <<>> /\ Top.at = "l174"
    /\ IF Top.resp.status >= 400
         THEN Raise("HTTPError") /\ UNCHANGED <<token, utoken>>
         ELSE Return(Top.resp)
    /\ UNCHANGED <<username, password, nRelogin, nSent, allRejected, clock, request,
                   notAuthVars>>

\* the poll loop of main.py, not started
PollIdle ==
    /\ now = 0 /\ last_heartbeat = 0 /\ failure_count = 0 /\ poll_interval = 0
    /\ endT = 0 /\ remaining = 0 /\ delay = 0 /\ ppc = "off"
    /\ escaped = None /\ fcBefore = 0 /\ cycle = "none" /\ chunks = 0
    /\ fetched = [t |-> "null", v |-> 0] /\ published = [t |-> "null", v |-> 0]

\* the normalizers, not called
NormIdle ==
    /\ nKind = "off"
    /\ nIn = [t |-> "null", v |-> 0]
    /\ nOut = [op |-> "none", val |-> [t |-> "null", v |-> 0]]

\* the token file, left out
SessIdle ==
    /\ client = "off" /\ token_file = ""
    /\ file = [kind |-> "missing", val |-> [t |-> "null", v |-> 0]]
    /\ sop = [op |-> "none"]

\* no second caller of the cloud bridge
ConcIdle ==
    /\ upc = "off" /\ rpc = "off"
    /\ update = [token |-> "None", utoken |-> "None"]
    /\ reading = [token |-> "None", utoken |-> "None"]
    /\ sessions = {} /\ nUpdates = 0

\* the loop of smartgen_bridge.py, not started
RetryIdle ==
    /\ lpc = "off" /\ attempt = 0 /\ ltime = 0 /\ lstatus = "None" /\ posts = <<>>
    /\ genset_address = "" /\ topic = <<>> /\ acted = <<>>

\* what the other components leave alone
\* smartgen_client, not used
LogIdle ==
    /\ logs = {}
    /\ last_login = [called |-> FALSE, token |-> "None", utoken |-> "None", exc |-> "None"]

RestIdle == ConcIdle /\ RetryIdle /\ LogIdle

AuthInit ==
    /\ RestIdle
    /\ PollIdle
    /\ NormIdle
    /\ SessIdle
    /\ username \in {"", "user"}
    /\ password \in {"", "pass"}
    /\ token \in {"", "t0"}
    /\ utoken \in {"", "t0"}
    /\ stack = <<>>
    /\ result = NoResult
    /\ nRelogin = 0 /\ nSent = 0 /\ allRejected = TRUE
    /\ clock = 0 /\ request = NoSent

AuthNext == CallApi \/ CallLogin \/ Post \/ Line167 \/ Line171 \/ Line174

AuthSpec == AuthInit /\ [][AuthNext]_vars

\* every HTTP request has a timeout and every step of the client is taken
AuthFairSpec == AuthSpec /\ WF_vars(AuthNext)

(***************************************************************************)
(* main.SmartGenBridge: the poll loop (main.py)                            *)
(***************************************************************************)
HEARTBEAT_INTERVAL == 60
SleepQuantum == 5
BackoffSteps == <<5, 10, 30>>

\* poll_interval = int(config.get("poll_interval", 30)): any integer
PollIntervals == {-1, 3, 7, 30, 70}

\* a backoff that forgets the cap at poll_interval
BackoffDelayNoCap(fc, interval) ==
    IF fc <= 0 THEN interval
    ELSE BackoffSteps[Min(fc - 1, Len(BackoffSteps) - 1) + 1]

\* _backoff_delay, of self.failure_count and self.poll_interval
BackoffDelay(fc, interval) ==
    IF fc <= 0 THEN interval
    ELSE LET idx == Min(fc - 1, Len(BackoffSteps) - 1)
         IN  Min(BackoffSteps[idx + 1], interval)

\* a sleep that is not cut into pieces
SleepWhole(rem) == rem

\* the argument of time.sleep in _sleep_with_heartbeat
SleepLength(rem) == Min(SleepQuantum, rem)

\* the test of _maybe_heartbeat
HeartbeatDue == now - last_heartbeat >= HEARTBEAT_INTERVAL

\* _maybe_heartbeat, called where the loop goes on at `next`:
\* publish_heartbeat may raise, and nothing in the loop catches it
MaybeHeartbeat(next) ==
    IF HeartbeatDue
      THEN \/ /\ last_heartbeat' = now
              /\ ppc' = next
              /\ UNCHANGED escaped
           \/ /\ escaped' = "ValueError"
              /\ ppc' = "dead"
              /\ UNCHANGED last_heartbeat
      ELSE /\ ppc' = next
           /\ UNCHANGED <<last_heartbeat, escaped>>

\* _tick, its first line: self._maybe_heartbeat()
TickHeartbeat ==
    /\ ppc = "tick"
    /\ MaybeHeartbeat("fetch")
    /\ fcBefore' = failure_count
    /\ chunks' = 0
    /\ cycle' = IF escaped' # None THEN "exc" ELSE "none"
    /\ fetched' = PNone /\ published' = PNone
    /\ UNCHANGED <<now, failure_count, poll_interval, endT, remaining, delay>>
    /\ UNCHANGED notPollVars

\* failure_count after the try block of _tick, by what happened in it
CountAfter(outcome) == IF outcome = "ok" THEN 0 ELSE failure_count + 1

\* what fetch_snapshot returns at time t: {} or a snapshot of that time
Snapshots(t) == {EmptyDict, PDict([k \in {"device_id", "at"} |->
                                     IF k = "at" THEN PInt(t) ELSE PStr("gen7")])}

\* a publish that does not look at the snapshot
PublishAlways(snapshot) == TRUE

\* _tick: "if snapshot:", the test before publish_device_state
ShouldPublish(snapshot) == Truthy(snapshot)

\* what happened in the try block: snapshot is what fetch_snapshot returned,
\* or the exception it raised; pubOk: publish_device_state did not raise
Outcome(snapshot, pubOk) ==
    IF IsRaise(snapshot) THEN "exc"
    ELSE IF ShouldPublish(snapshot) THEN (IF pubOk THEN "ok" ELSE "exc")
    ELSE "empty"

\* _tick, its try block, then delay = self._backoff_delay() and the first
\* line of _sleep_with_heartbeat: end = time.time() + duration.
\* cycle: "ok" (a snapshot, published), "empty" (no snapshot), "exc" (an
\* exception of fetch_snapshot or of publish_device_state)
Fetch ==
    /\ ppc = "fetch"
    /\ \E d \in 0..MaxFetchTime, pubOk \in BOOLEAN :
       \E snapshot \in Snapshots(now + d) \cup {PRaise("Exception")} :
         /\ now + d <= MaxTime
         /\ Outcome(snapshot, pubOk) # "ok" => failure_count < MaxFailures
         /\ now' = now + d
         /\ fetched' = snapshot
         /\ published' = IF ~IsRaise(snapshot) /\ ShouldPublish(snapshot)
                            THEN snapshot ELSE PNone
         /\ cycle' = Outcome(snapshot, pubOk)
         /\ failure_count' = CountAfter(Outcome(snapshot, pubOk))
         /\ delay' = BackoffDelay(CountAfter(Outcome(snapshot, pubOk)), poll_interval)
         /\ endT' = now + d + BackoffDelay(CountAfter(Outcome(snapshot, pubOk)), poll_interval)
    /\ ppc' = "sleep_test"
    /\ UNCHANGED <<last_heartbeat, poll_interval, remaining, escaped, fcBefore, chunks>>
    /\ UNCHANGED notPollVars

\* _sleep_with_heartbeat: the loop test "while time.time() < end" holds; the
\* clock goes on until it is read again
SleepTest ==
    /\ ppc = "sleep_test"
    /\ now < endT
    /\ \E d \in 0..MaxLag : now + d <= MaxTime /\ now' = now + d
    /\ ppc' = "sleep_remaining"
    /\ UNCHANGED <<last_heartbeat, failure_count, poll_interval, endT, remaining,
                   delay, escaped, fcBefore, cycle, chunks, fetched, published>>
    /\ UNCHANGED notPollVars

\* _sleep_with_heartbeat: remaining = end - time.time();
\* self._maybe_heartbeat()
SleepCheck ==
    /\ ppc = "sleep_remaining"
    /\ remaining' = endT - now
    /\ MaybeHeartbeat("sleeping")
    /\ cycle' = IF escaped' # None THEN "exc" ELSE cycle
    /\ UNCHANGED <<now, failure_count, poll_interval, endT, delay, fcBefore, chunks,
                   fetched, published>>
    /\ UNCHANGED notPollVars

\* _sleep_with_heartbeat: time.sleep(min(5, remaining))
\* time.sleep raises ValueError for a negative length, and nothing in the
\* loop catches it
SleepChunk ==
    /\ ppc = "sleeping"
    /\ IF SleepLength(remaining) < 0
         THEN /\ escaped' = "ValueError"
              /\ ppc' = "dead"
              /\ cycle' = "exc"
              /\ UNCHANGED <<now, chunks>>
         ELSE /\ now + SleepLength(remaining) <= MaxTime
              /\ now' = now + SleepLength(remaining)
              /\ chunks' = Min(chunks + 1, MaxCount)
              /\ ppc' = "sleep_test"
              /\ UNCHANGED <<escaped, cycle>>
    /\ UNCHANGED <<last_heartbeat, failure_count, poll_interval, endT, remaining,
                   delay, fcBefore, fetched, published>>
    /\ UNCHANGED notPollVars

\* _sleep_with_heartbeat: the loop test fails; _tick returns and start calls
\* it again
SleepDone ==
    /\ ppc = "sleep_test"
    /\ ~(now < endT)
    /\ ppc' = "tick"
    /\ UNCHANGED <<now, last_heartbeat, failure_count, poll_interval, endT, remaining,
                   delay, escaped, fcBefore, cycle, chunks, fetched, published>>
    /\ UNCHANGED notPollVars

\* the cloud bridge, not used by the poll loop of main.py
AuthIdle ==
    /\ username = "" /\ password = "" /\ token = "" /\ utoken = ""
    /\ stack = <<>> /\ result = NoResult
    /\ nRelogin = 0 /\ nSent = 0 /\ allRejected = TRUE
    /\ clock = 0 /\ request = NoSent

\* SmartGenBridge.__init__, then start: last_heartbeat = 0 and the clock is
\* the epoch time, far beyond HEARTBEAT_INTERVAL
PollInit ==
    /\ RestIdle
    /\ AuthIdle
    /\ NormIdle
    /\ SessIdle
    /\ now = HEARTBEAT_INTERVAL
    /\ last_heartbeat = 0
    /\ failure_count = 0
    /\ poll_interval \in PollIntervals
    /\ endT = 0 /\ remaining = 0 /\ delay = 0
    /\ ppc = "tick"
    /\ escaped = None
    /\ fcBefore = 0 /\ cycle = "none" /\ chunks = 0
    /\ fetched = PNone /\ published = PNone

PollNext == TickHeartbeat \/ Fetch \/ SleepTest \/ SleepCheck \/ SleepChunk \/ SleepDone

PollSpec == PollInit /\ [][PollNext]_vars

(***************************************************************************)
(* smartgen_bridge.py: to_bool, coalesce, parse_status                     *)
(***************************************************************************)
TrueStrings == {"true", "on", "yes", "1"}

\* a to_bool that compares the string as it is
to_bool_case_sensitive(x) ==
    CASE x.t = "bool" -> x.v
      [] x.t \in {"int", "float"} -> x.v # 0
      [] x.t = "str" -> x.v \in TrueStrings
      [] OTHER -> FALSE

\* to_bool(value) (smartgen_bridge.py)
to_bool(x) ==
    CASE x.t = "bool" -> x.v
      [] x.t \in {"int", "float"} -> x.v # 0
      [] x.t = "str" -> Lower(x.v) \in TrueStrings
      [] OTHER -> FALSE

\* SmartGenMqttBridge._to_bool(value) (main.py)
main_to_bool(x) ==
    CASE x.t = "bool" -> x.v
      [] x.t \in {"int", "float"} -> x.v # 0
      [] x.t = "str" -> Lower(x.v) \in {"true", "1", "on", "yes"}
      [] OTHER -> FALSE

\* a coalesce that takes a value for absent when it is false in Python
RECURSIVE coalesce_truthy(_, _, _)
coalesce_truthy(data, keys, default) ==
    IF keys = <<>> THEN default
    ELSE IF Head(keys) \in DOMAIN data.v /\ Truthy(data.v[Head(keys)])
           THEN data.v[Head(keys)]
           ELSE coalesce_truthy(data, Tail(keys), default)

\* coalesce(data, keys, default) (smartgen_bridge.py)
RECURSIVE coalesce(_, _, _)
coalesce(data, keys, default) ==
    IF keys = <<>> THEN default
    ELSE IF Head(keys) \in DOMAIN data.v /\ data.v[Head(keys)] \notin {PNone, PStr("")}
           THEN data.v[Head(keys)]
           ELSE coalesce(data, Tail(keys), default)

\* SmartGenMqttBridge._coalesce(data, keys, default) (main.py)
RECURSIVE main_coalesce(_, _, _)
main_coalesce(data, keys, default) ==
    IF keys = <<>> THEN default
    ELSE IF Head(keys) \in DOMAIN data.v /\ data.v[Head(keys)] \notin {PNone, PStr("")}
           THEN data.v[Head(keys)]
           ELSE main_coalesce(data, Tail(keys), default)

\* status.get("alarms") or status.get("alarm_list") or status.get("AlarmList") or []
AlarmListOf(status) ==
    POr(POr(POr(Get(status, "alarms"), Get(status, "alarm_list")),
            Get(status, "AlarmList")), EmptyList)

\* len(alarm_list) if isinstance(alarm_list, list) else int(alarm_list or 0)
AlarmCountOf(status) ==
    LET alarm_list == AlarmListOf(status)
    IN  IF IsList(alarm_list) THEN PInt(Len(alarm_list.v))
        ELSE PyInt(POr(alarm_list, PInt(0)))

\* alarm_count > 0 or to_bool(status.get("alarm"))
AlarmPresent(status) ==
    AlarmCountOf(status).v > 0 \/ to_bool(Get(status, "alarm"))

RunningOf(status) ==
    to_bool(coalesce(status, <<"running", "run_state", "runState", "is_running", "Run">>,
                     PBool(FALSE)))

\* state_text = "running" if running else "stopped"; "alarm" if alarm_present
StateText(status) ==
    IF AlarmPresent(status) THEN "alarm"
    ELSE IF RunningOf(status) THEN "running" ELSE "stopped"

\* parse_status(status): the record it returns, or the exception of int()
parse_status(status) ==
    IF IsRaise(AlarmCountOf(status)) THEN AlarmCountOf(status)
    ELSE PDict([
        rpm |-> coalesce(status, <<"rpm", "RPM", "speed", "gensetrpm">>, PInt(0)),
        frequency_hz |-> coalesce(status, <<"hz", "frequency", "Frequency">>, PInt(0)),
        voltage_l1_l2 |->
            coalesce(status, <<"voltage_l1_l2", "uab", "Uab", "u_ab", "ua">>, PInt(0)),
        voltage_l2_l3 |->
            coalesce(status, <<"voltage_l2_l3", "ubc", "Ubc", "u_bc", "ub">>, PInt(0)),
        voltage_l3_l1 |->
            coalesce(status, <<"voltage_l3_l1", "uca", "Uca", "u_ca", "uc">>, PInt(0)),
        kw |-> coalesce(status, <<"kw", "power_kw", "active_power", "kW">>, PInt(0)),
        run_hours |->
            coalesce(status, <<"run_hours", "runtime", "TotalRunTime", "runhour", "runtotal">>,
                     PInt(0)),
        alarm_count |-> AlarmCountOf(status),
        alarm_present |-> PBool(AlarmPresent(status)),
        running |-> PBool(RunningOf(status)),
        auto_mode |->
            PBool(to_bool(coalesce(status, <<"auto", "auto_mode", "AutoMode", "IsAuto">>,
                                   PBool(FALSE)))),
        manual_mode |->
            PBool(to_bool(coalesce(status, <<"manual", "manual_mode", "ManualMode">>,
                                   PBool(FALSE)))),
        mains_available |->
            PBool(to_bool(coalesce(status,
                <<"mains", "mains_available", "GridAvailable", "MainsAvailable">>,
                PBool(FALSE)))),
        genset_breaker_closed |->
            PBool(to_bool(coalesce(status,
                <<"genset_breaker", "genset_breaker_closed", "GenBreaker", "GenBreakerClosed">>,
                PBool(FALSE)))),
        mains_breaker_closed |->
            PBool(to_bool(coalesce(status,
                <<"mains_breaker", "mains_breaker_closed", "MainsBreaker", "MainsBreakerClosed">>,
                PBool(FALSE)))),
        state_text |-> PStr(StateText(status)) ])

(***************************************************************************)
(* main.py: SmartGenMqttBridge._derive_status                              *)
(***************************************************************************)
\* str(x), of the values a status or state field takes in the model
PyStr(x) ==
    CASE x.t = "str" -> x.v
      [] x.t = "bool" -> IF x.v THEN "True" ELSE "False"
      [] x.t = "null" -> "None"
      [] x = PInt(0) -> "0"
      [] x = PInt(1) -> "1"
      [] OTHER -> "?"

\* _derive_status(payload), of a mapping
derive_status(payload) ==
    IF Truthy(POr(POr(Get(payload, "alarm"), Get(payload, "alarm_present")),
                  main_coalesce(payload, <<"alarm_count", "alarms">>, PInt(0))))
      THEN "alarm"
    ELSE IF main_to_bool(main_coalesce(payload, <<"running", "run_state", "is_running", "Run">>,
                             PBool(FALSE)))
      THEN "running"
    ELSE PyStr(POr(POr(Get(payload, "status"), Get(payload, "state")), PStr("unknown")))

(***************************************************************************)
(* HTTP responses as the fetch operations see them                         *)
(***************************************************************************)
\* a body that is no JSON text
Invalid == [t |-> "invalid", v |-> 0]
\* the request failed: requests.RequestException
NoResponse == [sent |-> FALSE, html |-> FALSE, body |-> PNone]
\* a response; html: its Content-Type or its first character says HTML
Response(html, body) == [sent |-> TRUE, html |-> html, body |-> body]

(***************************************************************************)
(* main.py: SmartGenApiClient                                              *)
(***************************************************************************)
Paths == <<"/user/login", "/user/info", "/genset/mylist", "/genset/list", "/genset/getNav">>

\* JsonParser.parse_response: the JSON value, or {} when nothing parses
ParseResponse(resp) == IF resp.body = Invalid THEN EmptyDict ELSE resp.body

\* _send_request: (ok, data), or the AttributeError of _update_tokens on a
\* body that is no mapping
SendRequest(resp) ==
    IF ~resp.sent \/ resp.html THEN [t |-> "pair", ok |-> FALSE, data |-> EmptyDict]
    ELSE IF ~IsDict(ParseResponse(resp)) THEN PRaise("AttributeError")
    ELSE [t |-> "pair", ok |-> TRUE, data |-> ParseResponse(resp)]

\* _normalize_payload(data), of a client whose device_id is device_id
NormalizePayload(data, device_id) ==
    IF ~IsDict(data) THEN EmptyDict
    ELSE LET inner == Get(data, "data")
             candidate == IF IsDict(inner) \/ IsList(inner) THEN inner ELSE data
             first == IF IsList(candidate)
                        THEN (IF Truthy(candidate) THEN candidate.v[1] ELSE EmptyDict)
                        ELSE candidate
             res == IF IsDict(first) THEN first ELSE EmptyDict
         IN  SetDefault(res, "device_id", PStr(device_id))

\* fetch_snapshot: resps[i] answers the request to Paths[i]
RECURSIVE FetchFrom(_, _)
FetchFrom(resps, device_id) ==
    IF resps = <<>> THEN EmptyDict
    ELSE LET sent == SendRequest(Head(resps))
         IN  IF IsRaise(sent) THEN sent
             ELSE IF ~sent.ok \/ ~Truthy(sent.data) THEN FetchFrom(Tail(resps), device_id)
             ELSE IF Truthy(NormalizePayload(sent.data, device_id))
                    THEN NormalizePayload(sent.data, device_id)
                    ELSE FetchFrom(Tail(resps), device_id)

fetch_snapshot(in) == FetchFrom(in.resps, in.device_id)

(***************************************************************************)
(* smartgen_client.py: SmartGenClient.fetch_status                         *)
(***************************************************************************)
\* _parse_response: {} for HTML and for a body that is no JSON
ClientParseResponse(resp) ==
    IF resp.html \/ resp.body = Invalid THEN EmptyDict ELSE resp.body

\* fetch_status. in.session: "has" (token and utoken set), "login_ok",
\* "login_raises"; in.dec: what _decrypt_param makes of data["data"]
fetch_status(in) ==
    IF in.session = "login_raises" THEN PRaise("RuntimeError")
    ELSE IF in.address = "" THEN PRaise("ValueError")
    ELSE IF ~in.resp.sent THEN EmptyDict
    ELSE LET data == ClientParseResponse(in.resp)
         IN  IF ~IsDict(data) THEN PRaise("AttributeError")
             ELSE LET inner == Get(data, "data")
                      found == IF IsStr(inner) THEN in.dec
                               ELSE IF IsDict(inner) THEN inner
                               ELSE data
                      payload == POr(found, EmptyDict)
                  IN  IF ~IsDict(payload) THEN PRaise("AttributeError")
                      ELSE SetDefault(payload, "device_id", PStr(in.address))

(***************************************************************************)
(* The normalizers applied to the inputs of the model                      *)
(***************************************************************************)
\* mappings with each key of keys absent or bound to one of vals[key]
MapsOver(keys, vals) ==
    UNION {{f \in [K -> UNION {vals[k] : k \in keys}] : \A k \in K : f[k] \in vals[k]} :
           K \in SUBSET keys}

DeviceIdValues == {PNone, PStr(""), PStr("gen7")}

\* the mapping that carries the telemetry
InnerMaps ==
    MapsOver({"device_id", "rpm"},
             [k \in {"device_id", "rpm"} |->
                IF k = "device_id" THEN DeviceIdValues ELSE {PInt(1200)}])
InnerDicts == {PDict(f) : f \in InnerMaps}

\* what the "data" field of a body may be
DataValues ==
    InnerDicts \cup {PList(<<d>>) : d \in InnerDicts}
      \cup {PNone, EmptyList, PList(<<PStr("x")>>), PStr("b64")}

\* response bodies: mappings, and JSON values that are no mapping
BodyMaps ==
    MapsOver({"data", "device_id", "code"},
             [k \in {"data", "device_id", "code"} |->
                CASE k = "data" -> DataValues
                  [] k = "device_id" -> DeviceIdValues
                  [] OTHER -> {PInt(200)}])
Bodies ==
    {PDict(f) : f \in BodyMaps}
      \cup {PNone, EmptyList, PList(<<PStr("x")>>), PStr("ok"), PInt(1), Invalid}

Responses == {NoResponse} \cup {Response(h, b) : h \in BOOLEAN, b \in Bodies}

\* responses that make fetch_snapshot go on to the next path
Skipped == {NoResponse, Response(TRUE, EmptyDict), Response(FALSE, EmptyDict)}

\* one response of interest at path k, the other paths skipped
FetchSnapshotInputs ==
    {[device_id |-> "unknown",
      resps |-> [i \in 1..Len(Paths) |-> IF i = k THEN r ELSE o]] :
        k \in 1..Len(Paths), r \in Responses, o \in Skipped}

\* what _decrypt_param returns: {} on failure, else the JSON value
DecValues == InnerDicts \cup {EmptyList, PList(<<PStr("x")>>)}

FetchStatusInputs ==
    {[address |-> a, session |-> s, resp |-> r, dec |-> d] :
        a \in {"", "gen7"}, s \in {"has", "login_ok", "login_raises"},
        r \in Responses, d \in DecValues}

\* status mappings for parse_status and _derive_status
StatusKeys == {"alarm", "alarms", "alarm_list", "alarm_count", "running", "status"}
StatusValues ==
    [k \in StatusKeys |->
        CASE k = "alarm" -> {PBool(TRUE), PBool(FALSE), PStr("On"), PStr("off")}
          [] k = "alarms" ->
               {EmptyList, PList(<<PStr("X")>>), PInt(0), PInt(2), PInt(-1), PStr("3"),
                PStr("abc"), PNone}
          [] k = "alarm_list" -> {EmptyList, PList(<<PStr("X")>>)}
          [] k = "alarm_count" -> {PInt(0), PInt(3)}
          [] k = "running" -> {PBool(TRUE), PBool(FALSE), PStr("YES"), PInt(0)}
          [] OTHER -> {PStr("standby")}]
StatusInputs == {PDict(f) : f \in MapsOver(StatusKeys, StatusValues)}

\* main.SmartGenApiClient.fetch_snapshot
DoFetchSnapshot ==
    /\ nKind = "fetch_snapshot" /\ nOut.op = "none"
    /\ nOut' = [op |-> "fetch_snapshot", val |-> fetch_snapshot(nIn)]
    /\ UNCHANGED <<nKind, nIn, notNormVars>>

\* status mappings with the speed under several spellings
RpmKeys == {"rpm", "RPM", "speed"}
RpmValues ==
    [k \in RpmKeys |->
        CASE k = "rpm" -> {PInt(1200), PInt(0), PBool(FALSE), PStr(""), PNone}
          [] k = "RPM" -> {PInt(9999), PStr("")}
          [] OTHER -> {PInt(7)}]
RpmInputs == {PDict(f) : f \in MapsOver(RpmKeys, RpmValues)}
\* the calls of coalesce
CoalesceInputs ==
    {[data |-> d, keys |-> ks, default |-> df] :
        d \in RpmInputs,
        ks \in {<<"rpm", "RPM", "speed", "gensetrpm">>, <<"RPM", "rpm">>, <<"speed">>, <<>>},
        df \in {PInt(0), PNone}}
\* the values handed to to_bool
BoolInputs ==
    {PBool(TRUE), PBool(FALSE), PInt(0), PInt(1), PInt(-1), PInt(2), PFloat(0), PFloat(5),
     PStr("true"), PStr("TRUE"), PStr("On"), PStr("on"), PStr("YES"), PStr("yes"),
     PStr("1"), PStr("0"), PStr("off"), PStr(""), PStr(" true"), PStr("2"),
     PNone, EmptyList, PList(<<PBool(TRUE)>>), EmptyDict,
     PDict([k \in {"on"} |-> PBool(TRUE)])}

\* coalesce and SmartGenMqttBridge._coalesce on the same call
DoCoalesce ==
    /\ nKind = "coalesce" /\ nOut.op = "none"
    /\ nOut' = [op |-> "coalesce",
                val |-> [bridge |-> coalesce(nIn.data, nIn.keys, nIn.default),
                         main |-> main_coalesce(nIn.data, nIn.keys, nIn.default)]]
    /\ UNCHANGED <<nKind, nIn, notNormVars>>

\* to_bool and SmartGenMqttBridge._to_bool on the same value
DoToBool ==
    /\ nKind = "value" /\ nOut.op = "none"
    /\ nOut' = [op |-> "to_bool",
                val |-> [bridge |-> to_bool(nIn), main |-> main_to_bool(nIn)]]
    /\ UNCHANGED <<nKind, nIn, notNormVars>>

\* bodies handed to _normalize_payload, each with what decrypting its "data"
\* would give
NormalizeInputs ==
    {[body |-> b, dec |-> d, device_id |-> "unknown"] : b \in Bodies \ {Invalid}, d \in DecValues}

\* main.SmartGenApiClient._normalize_payload
DoNormalizePayload ==
    /\ nKind = "normalize" /\ nOut.op = "none"
    /\ nOut' = [op |-> "normalize_payload", val |-> NormalizePayload(nIn.body, nIn.device_id)]
    /\ UNCHANGED <<nKind, nIn, notNormVars>>

\* smartgen_client.SmartGenClient.fetch_status
DoFetchStatus ==
    /\ nKind = "fetch_status" /\ nOut.op = "none"
    /\ nOut' = [op |-> "fetch_status", val |-> fetch_status(nIn)]
    /\ UNCHANGED <<nKind, nIn, notNormVars>>

\* smartgen_bridge.SmartGenBridge.parse_status
DoParseStatus ==
    /\ nKind \in {"status", "rpm_status"} /\ nOut.op = "none"
    /\ nOut' = [op |-> "parse_status", val |-> parse_status(nIn)]
    /\ UNCHANGED <<nKind, nIn, notNormVars>>

\* main.SmartGenMqttBridge._derive_status
DoDeriveStatus ==
    /\ nKind = "status" /\ nOut.op = "none"
    /\ nOut' = [op |-> "derive_status", val |-> PStr(derive_status(nIn))]
    /\ UNCHANGED <<nKind, nIn, notNormVars>>

NormInit ==
    /\ RestIdle
    /\ AuthIdle
    /\ PollIdle
    /\ SessIdle
    /\ nOut = [op |-> "none", val |-> PNone]
    /\ \/ nKind = "fetch_snapshot" /\ nIn \in FetchSnapshotInputs
       \/ nKind = "fetch_status" /\ nIn \in FetchStatusInputs
       \/ nKind = "status" /\ nIn \in StatusInputs
       \/ nKind = "normalize" /\ nIn \in NormalizeInputs
       \/ nKind = "rpm_status" /\ nIn \in RpmInputs
       \/ nKind = "coalesce" /\ nIn \in CoalesceInputs
       \/ nKind = "value" /\ nIn \in BoolInputs

NormNext ==
    \/ DoFetchSnapshot \/ DoFetchStatus \/ DoParseStatus \/ DoDeriveStatus
    \/ DoNormalizePayload \/ DoCoalesce \/ DoToBool

NormSpec == NormInit /\ [][NormNext]_vars

(***************************************************************************)
(* The session and its token file (smartgen_cloud_bridge.py), and the      *)
(* session of main.SmartGenApiClient, which has no file                    *)
(***************************************************************************)
\* the content of the token file; the timestamp field, which nothing reads,
\* is left out
NoFile == [kind |-> "missing", val |-> PNone]
CorruptFile == [kind |-> "invalid", val |-> PNone]
JsonFile(v) == [kind |-> "json", val |-> v]

\* a token as a JSON value, and back
ToP(x) == IF x = None THEN PNone ELSE PStr(x)
FromP(p) == IF p.t = "null" THEN None ELSE p.v

\* json.dump({"token": self.token, "utoken": self.utoken, ...})
SavedFile(tok, utok) ==
    JsonFile(PDict([k \in {"token", "utoken"} |-> IF k = "token" THEN ToP(tok) ELSE ToP(utok)]))

\* config.get("token_file", DEFAULT_TOKEN_FILE): with and without a directory
TokenFiles == {"/home/solar-assistant/smartgen_tokens.json", "smartgen_tokens.json"}
\* os.path.dirname
Dirname(path) == IF path = "smartgen_tokens.json" THEN "" ELSE "/home/solar-assistant"

\* the try block of load_tokens: json.load, the two data.get
LoadBody(f, tok, utok) ==
    IF f.kind = "invalid" THEN PRaise("JSONDecodeError")
    ELSE IF ~IsDict(f.val) THEN PRaise("AttributeError")
    ELSE [t |-> "session",
          token |-> IF "token" \in DOMAIN f.val.v THEN FromP(f.val.v["token"]) ELSE tok,
          utoken |-> IF "utoken" \in DOMAIN f.val.v THEN FromP(f.val.v["utoken"]) ELSE utok]

\* load_tokens without its try
load_tokens_unguarded(f, tok, utok) ==
    LET body == LoadBody(f, tok, utok)
    IN  IF f.kind = "missing" THEN [raised |-> FALSE, token |-> tok, utoken |-> utok]
        ELSE IF IsRaise(body) THEN [raised |-> TRUE, token |-> tok, utoken |-> utok]
        ELSE [raised |-> FALSE, token |-> body.token, utoken |-> body.utoken]

\* load_tokens, of a session (tok, utok): the session it leaves, and whether
\* it raised
load_tokens(f, tok, utok) ==
    LET body == LoadBody(f, tok, utok)
    IN  IF f.kind = "missing" \/ IsRaise(body)
          THEN [raised |-> FALSE, token |-> tok, utoken |-> utok]
          ELSE [raised |-> FALSE, token |-> body.token, utoken |-> body.utoken]

\* the try block of save_tokens: os.makedirs(dirname), open, json.dump.
\* os.makedirs("") raises FileNotFoundError
SaveBody(path, tok, utok) ==
    IF Dirname(path) = "" THEN PRaise("FileNotFoundError")
    ELSE [t |-> "written", v |-> SavedFile(tok, utok)]

\* save_tokens: the file it leaves, and whether it raised
save_tokens(f, path, tok, utok) ==
    [raised |-> FALSE,
     file |-> IF IsRaise(SaveBody(path, tok, utok)) THEN f ELSE SaveBody(path, tok, utok).v]

\* values of the token fields of a response or of the token file
FieldValues == {PNone, PStr(""), PStr("t1")}

\* the files a process may find at its start
StartFiles ==
    {NoFile, CorruptFile, JsonFile(PList(<<PStr("t1")>>)), JsonFile(PStr("t1"))}
      \cup {JsonFile(PDict(f)) :
              f \in MapsOver({"token", "utoken"}, [k \in {"token", "utoken"} |-> FieldValues])}

\* the "data" of a login response
SessLoginData ==
    {PNone, PStr("ok")}
      \cup {PDict(f) :
              f \in MapsOver({"token", "accessToken", "utoken", "refreshToken"},
                             [k \in {"token", "accessToken", "utoken", "refreshToken"} |->
                                IF k = "accessToken" THEN {PStr("t1")}
                                ELSE {PStr(""), PStr("t1")}])}

\* the bodies main.SmartGenApiClient._update_tokens reads
MainBodies ==
    {PDict(f) :
       f \in MapsOver({"token", "Token", "utoken", "UToken"},
                      [k \in {"token", "Token", "utoken", "UToken"} |-> {PStr(""), PStr("t1")}])}

\* the last operations on the session, the newest last
Hist(op) == IF Len(sop.hist) < 2 THEN Append(sop.hist, op)
            ELSE <<sop.hist[Len(sop.hist)], op>>

\* the record of an operation: its arguments, the session and the file it
\* found, and the session last handed to save_tokens
Op(op, raised, tokArg, utokArg) ==
    [op |-> op, hist |-> Hist(op), raised |-> raised, tokArg |-> tokArg, utokArg |-> utokArg,
     pairBefore |-> <<token, utoken>>, fileBefore |-> file, saved |-> sop.saved]

\* SmartGenCloudBridge.__init__ of a new process: the session of the config,
\* then load_tokens
Start ==
    /\ client = "cloud"
    /\ \E ct \in {"", "t0"}, cu \in {"", "t0"} :
         LET loaded == load_tokens(file, ct, cu)
         IN  /\ token' = loaded.token
             /\ utoken' = loaded.utoken
             /\ sop' = [Op("start", loaded.raised, None, None) EXCEPT !.pairBefore = <<ct, cu>>]
    /\ UNCHANGED <<username, password, stack, result, nRelogin, nSent, allRejected,
                   clock, request>>
    /\ UNCHANGED <<client, token_file, file, pollVars, normVars, restVars>>

\* SmartGenCloudBridge.login after its _post_encrypted returned a response
\* with this data: _update_tokens, which ends in save_tokens
Login ==
    /\ client = "cloud"
    /\ \E data \in SessLoginData :
         IF IsDict(data)
           THEN LET tokArg == FromP(POr(Get(data, "token"), Get(data, "accessToken")))
                    utokArg == FromP(POr(Get(data, "utoken"), Get(data, "refreshToken")))
                    saved == save_tokens(file, token_file,
                                         UpdatedToken(tokArg), UpdatedUtoken(utokArg))
                IN  /\ token' = UpdatedToken(tokArg)
                    /\ utoken' = UpdatedUtoken(utokArg)
                    /\ file' = saved.file
                    /\ sop' = [Op("login", saved.raised, tokArg, utokArg) EXCEPT
                                  !.saved = <<UpdatedToken(tokArg), UpdatedUtoken(utokArg)>>]
           ELSE /\ sop' = Op("login_no_data", FALSE, None, None)
                /\ UNCHANGED <<token, utoken, file>>
    /\ UNCHANGED <<username, password, stack, result, nRelogin, nSent, allRejected,
                   clock, request>>
    /\ UNCHANGED <<client, token_file, pollVars, normVars, restVars>>

\* main.SmartGenApiClient._update_tokens(data), as _send_request calls it on
\* every parsed response
MainUpdateTokens ==
    /\ client = "main"
    /\ \E data \in MainBodies :
         LET tok == POr(Get(data, "token"), Get(data, "Token"))
             utok == POr(Get(data, "utoken"), Get(data, "UToken"))
         IN  /\ token' = IF Truthy(tok) THEN FromP(tok) ELSE token
             /\ utoken' = IF Truthy(utok) THEN FromP(utok) ELSE utoken
             /\ sop' = Op("main_update", FALSE, FromP(tok), FromP(utok))
    /\ UNCHANGED <<username, password, stack, result, nRelogin, nSent, allRejected,
                   clock, request>>
    /\ UNCHANGED <<client, token_file, file, pollVars, normVars, restVars>>

\* a process after construction: the cloud bridge has read its token file,
\* main.SmartGenApiClient has the session of its config and no file
SessInit ==
    /\ RestIdle
    /\ PollIdle
    /\ NormIdle
    /\ clock = 0 /\ request = NoSent
    /\ username = "user" /\ password = "pass"
    /\ stack = <<>> /\ result = NoResult
    /\ nRelogin = 0 /\ nSent = 0 /\ allRejected = TRUE
    /\ client \in {"cloud", "main"}
    /\ \E ct \in {"", "t0"}, cu \in {"", "t0"} :
         IF client = "cloud"
           THEN /\ token_file \in TokenFiles
                /\ file \in StartFiles
                /\ token = load_tokens(file, ct, cu).token
                /\ utoken = load_tokens(file, ct, cu).utoken
                /\ sop = [op |-> "start", hist |-> <<"start">>,
                          raised |-> load_tokens(file, ct, cu).raised,
                          tokArg |-> None, utokArg |-> None,
                          pairBefore |-> <<ct, cu>>, fileBefore |-> file,
                          saved |-> <<None, None>>]
           ELSE /\ token_file = ""
                /\ file = NoFile
                /\ token = ct /\ utoken = cu
                /\ sop = [op |-> "init", hist |-> <<"init">>, raised |-> FALSE,
                          tokArg |-> None, utokArg |-> None,
                          pairBefore |-> <<ct, cu>>, fileBefore |-> NoFile,
                          saved |-> <<None, None>>]

SessNext == Start \/ Login \/ MainUpdateTokens

SessSpec == SessInit /\ [][SessNext]_vars

(***************************************************************************)
(* HTTP responses as text: the HTML test and the JSON decoders of the      *)
(* four clients                                                            *)
(***************************************************************************)
\* response.text[:500]
SnippetLen == 500

\* the characters of a body, after its leading whitespace
Chars == {"<", "{", "}", "a"}
\* bodies of at most MaxBody characters after the whitespace
MaxBody == 3
Texts == UNION {[1..n -> Chars] : n \in 0..MaxBody}

ContentTypes ==
    {"", "application/json", "text/html", "text/html; charset=utf-8", "Text/HTML"}

\* a response that arrived: status, Content-Type, ws blanks and then text;
\* encrypted: the body is the base64 of a ciphertext whose plaintext is text
HttpResponses ==
    [status : {200, 500}, content_type : ContentTypes, ws : {0, 2, SnippetLen},
     text : Texts, encrypted : BOOLEAN]

\* str.lower() of a Content-Type
LowerCT(ct) == IF ct = "Text/HTML" THEN "text/html" ELSE ct
\* "text/html" in s
ContainsTextHtml(s) == s \in {"text/html", "text/html; charset=utf-8"}

\* body.strip().startswith("<"), of body = response.text[:500]
SnippetStartsWithTag(r) ==
    /\ ~r.encrypted
    /\ r.ws < SnippetLen
    /\ r.text # <<>>
    /\ r.text[1] = "<"

\* an HTML test that looks at the header only
IsHtmlByHeader(r) == ContainsTextHtml(LowerCT(r.content_type))

\* "text/html" in content_type or body.strip().startswith("<")
IsHtmlResponse(r) ==
    ContainsTextHtml(LowerCT(r.content_type)) \/ SnippetStartsWithTag(r)

\* json.loads of a text: the JSON value, or Invalid
JsonLoads(text) == IF text = <<"{", "}">> THEN EmptyDict ELSE Invalid

\* JsonParser.extract_json_like: re.search(r"\{.*\}", text, re.DOTALL)
extract_json_like(text) ==
    LET opens == {i \in DOMAIN text : text[i] = "{"}
        closes == {i \in DOMAIN text : text[i] = "}"}
        first == CHOOSE i \in opens : \A j \in opens : i <= j
        last == CHOOSE i \in closes : \A j \in closes : j <= i
    IN  IF opens = {} \/ closes = {} THEN <<>>
        ELSE IF first < last THEN SubSeq(text, first, last) ELSE <<>>

\* JsonParser.parse_response: response.json(), then the regex extraction
parse_response(text) ==
    IF JsonLoads(text) # Invalid THEN JsonLoads(text)
    ELSE IF extract_json_like(text) # <<>> /\ JsonLoads(extract_json_like(text)) # Invalid
           THEN JsonLoads(extract_json_like(text))
           ELSE EmptyDict

\* what a client did with a response: its result, whether it took the
\* response for a failure, and the decoders it handed the body to
Handled(val, failed, json_tried, regex_tried) ==
    [val |-> val, failed |-> failed, json_tried |-> json_tried, regex_tried |-> regex_tried]

\* main.SmartGenApiClient._send_request, of a response that arrived
send_request(r) ==
    IF IsHtmlResponse(r) THEN Handled(EmptyDict, TRUE, FALSE, FALSE)
    ELSE Handled(parse_response(r.text), FALSE, TRUE, JsonLoads(r.text) = Invalid)

\* smartgen_client.SmartGenClient._parse_response
client_parse_response(r) ==
    IF IsHtmlResponse(r) THEN Handled(EmptyDict, TRUE, FALSE, FALSE)
    ELSE IF JsonLoads(r.text) = Invalid THEN Handled(EmptyDict, TRUE, TRUE, FALSE)
    ELSE Handled(JsonLoads(r.text), FALSE, TRUE, FALSE)

\* SmartGenCloudBridge._post_encrypted from response.raise_for_status() on,
\* with _decode_response: sm4_decrypt or else the body as it is, then
\* json.loads, then {"raw": text}
decode_response(r) ==
    IF r.status >= 400 THEN Handled(PRaise("HTTPError"), TRUE, FALSE, FALSE)
    ELSE IF JsonLoads(r.text) # Invalid THEN Handled(JsonLoads(r.text), FALSE, TRUE, FALSE)
    ELSE Handled(PDict([k \in {"raw"} |-> PStr(r.text)]), FALSE, TRUE, FALSE)

\* smartgen_bridge.SmartGenClient._post: raise_for_status, response.json();
\* None after a RequestException or a JSONDecodeError
legacy_post(r) ==
    IF r.status >= 400 THEN Handled(PNone, TRUE, FALSE, FALSE)
    ELSE IF JsonLoads(r.text) = Invalid THEN Handled(PNone, TRUE, TRUE, FALSE)
    ELSE Handled(JsonLoads(r.text), FALSE, TRUE, FALSE)

DoSendRequest ==
    /\ nKind = "http" /\ nOut.op = "none" /\ ~nIn.encrypted
    /\ nOut' = [op |-> "send_request", val |-> send_request(nIn)]
    /\ UNCHANGED <<nKind, nIn, notNormVars>>

DoClientParseResponse ==
    /\ nKind = "http" /\ nOut.op = "none" /\ ~nIn.encrypted
    /\ nOut' = [op |-> "client_parse_response", val |-> client_parse_response(nIn)]
    /\ UNCHANGED <<nKind, nIn, notNormVars>>

DoDecodeResponse ==
    /\ nKind = "http" /\ nOut.op = "none"
    /\ nOut' = [op |-> "decode_response", val |-> decode_response(nIn)]
    /\ UNCHANGED <<nKind, nIn, notNormVars>>

DoLegacyPost ==
    /\ nKind = "http" /\ nOut.op = "none" /\ ~nIn.encrypted
    /\ nOut' = [op |-> "legacy_post", val |-> legacy_post(nIn)]
    /\ UNCHANGED <<nKind, nIn, notNormVars>>

DecodeInit ==
    /\ RestIdle
    /\ AuthIdle
    /\ PollIdle
    /\ SessIdle
    /\ nKind = "http"
    /\ nIn \in HttpResponses
    /\ nOut = [op |-> "none", val |-> PNone]

DecodeNext == DoSendRequest \/ DoClientParseResponse \/ DoDecodeResponse \/ DoLegacyPost

DecodeSpec == DecodeInit /\ [][DecodeNext]_vars

(***************************************************************************)
(* The two payload ciphers (smartgen_cloud_bridge.py: SM4-ECB;             *)
(* smartgen_client.py: AES-CBC) and the request signature                  *)
(***************************************************************************)
\* byte strings are sequences of 0..255, texts are sequences of code points
BlockSize == 16
\* the longest tail of a byte string or text of the model
MaxTail == 2

Fill(n, b) == [i \in 1..n |-> b]
TailsOver(S) == UNION {[1..n -> S] : n \in 0..MaxTail}
\* the lengths before the tail: around one block and around two
FillLens == {0, 13, 14, 15, 16, 29}

Bytes(v) == [t |-> "bytes", v |-> v]

\* str.encode("utf-8"), of code points below 256
RECURSIVE Utf8Encode(_)
Utf8Encode(text) ==
    IF text = <<>> THEN <<>>
    ELSE (IF Head(text) < 128 THEN <<Head(text)>> ELSE <<195, Head(text) - 64>>)
           \o Utf8Encode(Tail(text))

\* the bytes are the UTF-8 of a text
RECURSIVE Utf8Valid(_)
Utf8Valid(b) ==
    IF b = <<>> THEN TRUE
    ELSE IF Head(b) < 128 THEN Utf8Valid(Tail(b))
    ELSE IF Head(b) = 195 /\ Len(b) >= 2 /\ b[2] \in 128..191 THEN Utf8Valid(Tail(Tail(b)))
    ELSE FALSE

\* bytes.decode("utf-8", errors="ignore")
RECURSIVE Utf8DecodeIgnore(_)
Utf8DecodeIgnore(b) ==
    IF b = <<>> THEN <<>>
    ELSE IF Head(b) < 128 THEN <<Head(b)>> \o Utf8DecodeIgnore(Tail(b))
    ELSE IF Head(b) = 195 /\ Len(b) >= 2 /\ b[2] \in 128..191
           THEN <<b[2] + 64>> \o Utf8DecodeIgnore(Tail(Tail(b)))
    ELSE Utf8DecodeIgnore(Tail(b))

\* bytes.decode("utf-8")
Utf8Decode(b) ==
    IF Utf8Valid(b) THEN PStr(Utf8DecodeIgnore(b)) ELSE PRaise("UnicodeDecodeError")

\* a padding that adds nothing to a whole number of blocks
pkcs7_pad_no_full_block(data) ==
    LET padding_len == (BlockSize - (Len(data) % BlockSize)) % BlockSize
    IN  data \o Fill(padding_len, padding_len)

\* pkcs7_pad (smartgen_cloud_bridge.py)
pkcs7_pad(data) ==
    LET padding_len == BlockSize - (Len(data) % BlockSize)
    IN  data \o Fill(padding_len, padding_len)

\* _pkcs7_pad (smartgen_client.py)
client_pkcs7_pad(data) ==
    LET padding == BlockSize - (Len(data) % BlockSize)
    IN  data \o Fill(padding, padding)

\* data[-n:] and data[:-n], for n >= 1
LastN(data, n) == SubSeq(data, IF n >= Len(data) THEN 1 ELSE Len(data) - n + 1, Len(data))
DropLastN(data, n) == SubSeq(data, 1, IF n >= Len(data) THEN 0 ELSE Len(data) - n)

\* an unpad that looks at the last byte only
pkcs7_unpad_last_byte_only(data) ==
    IF data = <<>> THEN PRaise("ValueError")
    ELSE IF data[Len(data)] < 1 \/ data[Len(data)] > BlockSize THEN PRaise("ValueError")
    ELSE Bytes(DropLastN(data, data[Len(data)]))

\* pkcs7_unpad (smartgen_cloud_bridge.py)
pkcs7_unpad(data) ==
    IF data = <<>> THEN PRaise("ValueError")
    ELSE LET padding_len == data[Len(data)]
         IN  IF padding_len < 1 \/ padding_len > BlockSize THEN PRaise("ValueError")
             ELSE IF LastN(data, padding_len) # Fill(padding_len, padding_len)
                    THEN PRaise("ValueError")
             ELSE Bytes(DropLastN(data, padding_len))

\* _pkcs7_unpad (smartgen_client.py)
client_pkcs7_unpad(data) ==
    IF data = <<>> THEN data
    ELSE LET padding == data[Len(data)]
         IN  IF padding < 1 \/ padding > 16 THEN data
             ELSE DropLastN(data, padding)

\* the block cipher under a fixed key, as a substitution of bytes, and its
\* inverse; the cipher libraries are taken as the bare block operations
EncByte(b) == (b + 101) % 256
DecByte(b) == (b + 155) % 256

\* CryptSM4.crypt_ecb under SM4_ENCRYPT and under SM4_DECRYPT
ecb_encrypt(data) == [i \in DOMAIN data |-> EncByte(data[i])]
ecb_decrypt(data) == [i \in DOMAIN data |-> DecByte(data[i])]

\* base64.b64encode(...).decode("utf-8") and base64.b64decode
B64(data) == [t |-> "b64", v |-> data]
B64Decode(text) == text.v

\* sm4_encrypt(plaintext)
sm4_encrypt(plaintext) == B64(ecb_encrypt(pkcs7_pad(Utf8Encode(plaintext))))

\* sm4_decrypt(ciphertext_b64): the text, or the exception
sm4_decrypt(ciphertext_b64) ==
    LET unpadded == pkcs7_unpad(ecb_decrypt(B64Decode(ciphertext_b64)))
    IN  IF IsRaise(unpadded) THEN unpadded ELSE Utf8Decode(unpadded.v)

\* self.aes_iv = _to_bytes(DEFAULT_AES_IV): the 16 bytes of "smartgencloudplu"
AesIv == <<115, 109, 97, 114, 116, 103, 101, 110, 99, 108, 111, 117, 100, 112, 108, 117>>

\* AES.new(key, AES.MODE_CBC, iv).encrypt: byte i of the ciphertext
RECURSIVE CbcEncByte(_, _)
CbcEncByte(data, i) ==
    EncByte((data[i] + (IF i <= BlockSize THEN AesIv[i] ELSE CbcEncByte(data, i - BlockSize)))
              % 256)

cbc_encrypt(data) ==
    IF Len(data) % BlockSize # 0 THEN PRaise("ValueError")
    ELSE Bytes([i \in DOMAIN data |-> CbcEncByte(data, i)])

\* AES.new(key, AES.MODE_CBC, iv).decrypt
cbc_decrypt(data) ==
    IF Len(data) % BlockSize # 0 THEN PRaise("ValueError")
    ELSE Bytes([i \in DOMAIN data |->
                  (DecByte(data[i]) + 256
                     - (IF i <= BlockSize THEN AesIv[i] ELSE data[i - BlockSize])) % 256])

\* the JSON objects of the model: {} and {"a": "x...x"}
JsonObjects == {EmptyDict} \cup {PDict([k \in {"a"} |-> PStr(Fill(n, 120))]) : n \in 0..30}

\* json.dumps(obj, separators=(",", ":"))
JsonDumps(obj) ==
    IF obj = EmptyDict THEN <<123, 125>>
    ELSE <<123, 34, 97, 34, 58, 34>> \o obj.v["a"].v \o <<34, 125>>

\* a text without the whitespace at its end, which json.loads skips
RECURSIVE RStrip(_)
RStrip(text) ==
    IF text # <<>> /\ text[Len(text)] \in {9, 10, 13, 32}
      THEN RStrip(SubSeq(text, 1, Len(text) - 1))
      ELSE text

\* _safe_json_loads(text): the object, or {} when json.loads raises
safe_json_loads(text) ==
    IF \E o \in JsonObjects : JsonDumps(o) = RStrip(text)
      THEN CHOOSE o \in JsonObjects : JsonDumps(o) = RStrip(text)
      ELSE EmptyDict

\* _encrypt_param(payload)
encrypt_param(payload) == B64(cbc_encrypt(client_pkcs7_pad(Utf8Encode(JsonDumps(payload)))).v)

\* _decrypt_param(encoded): {} after any exception
decrypt_param(encoded) ==
    LET decrypted == cbc_decrypt(B64Decode(encoded))
    IN  IF IsRaise(decrypted) THEN EmptyDict
        ELSE safe_json_loads(Utf8DecodeIgnore(client_pkcs7_unpad(decrypted.v)))

\* plaintexts: letters, control characters up to the block size, a letter
\* of two bytes
PlainTexts == {Fill(n, 97) \o tail : n \in FillLens, tail \in TailsOver({97, 1, 16, 233})}
\* byte strings
ByteStrings == {Fill(n, 120) \o tail : n \in FillLens, tail \in TailsOver({0, 1, 2, 16, 17, 255})}
\* what a ciphertext may decrypt to: a JSON text and a tail
DecryptedTexts ==
    {JsonDumps(PDict([k \in {"a"} |-> PStr(Fill(n, 120))])) \o tail :
        n \in {5, 6, 7, 8, 22}, tail \in TailsOver({1, 2, 10, 17, 32})}
\* tokens of the signature
SignTokens == {PNone, PStr(<<>>), PStr(<<Chr("t")>>), PStr(<<Chr("1")>>), PStr(<<Chr("1"), Chr("2")>>)}
SignTimes == {0, 2, 12, 21, 1700}

DoPadUnpad ==
    /\ nKind = "bytes" /\ nOut.op = "none"
    /\ nOut' = [op |-> "pad_unpad",
                val |-> [ecb |-> pkcs7_unpad(pkcs7_pad(nIn)),
                         cbc |-> Bytes(client_pkcs7_unpad(client_pkcs7_pad(nIn)))]]
    /\ UNCHANGED <<nKind, nIn, notNormVars>>

DoUnpad ==
    /\ nKind = "bytes" /\ nOut.op = "none"
    /\ nOut' = [op |-> "pkcs7_unpad", val |-> pkcs7_unpad(nIn)]
    /\ UNCHANGED <<nKind, nIn, notNormVars>>

DoSm4RoundTrip ==
    /\ nKind = "plaintext" /\ nOut.op = "none"
    /\ nOut' = [op |-> "sm4_round_trip", val |-> sm4_decrypt(sm4_encrypt(nIn))]
    /\ UNCHANGED <<nKind, nIn, notNormVars>>

\* sm4_decrypt of the ciphertext whose blocks decrypt to nIn
DoSm4Decrypt ==
    /\ nKind = "bytes" /\ nOut.op = "none" /\ Len(nIn) % BlockSize = 0
    /\ nOut' = [op |-> "sm4_decrypt", val |-> sm4_decrypt(B64(ecb_encrypt(nIn)))]
    /\ UNCHANGED <<nKind, nIn, notNormVars>>

DoParamRoundTrip ==
    /\ nKind = "object" /\ nOut.op = "none"
    /\ nOut' = [op |-> "param_round_trip", val |-> decrypt_param(encrypt_param(nIn))]
    /\ UNCHANGED <<nKind, nIn, notNormVars>>

\* _decrypt_param of the ciphertext whose blocks decrypt to nIn
DoDecryptParam ==
    /\ nKind = "decrypted" /\ nOut.op = "none" /\ Len(nIn) % BlockSize = 0
    /\ nOut' = [op |-> "decrypt_param", val |-> decrypt_param(B64(cbc_encrypt(nIn).v))]
    /\ UNCHANGED <<nKind, nIn, notNormVars>>

\* a signature that forgets the timestamp
build_signature_no_timestamp(c, timestamp) ==
    md5_hex(c.token \o c.utoken \o c.sign_secret)

\* SmartGenClient._build_signature(timestamp), of the client c
build_signature(c, timestamp) ==
    md5_hex(c.token \o c.utoken \o timestamp \o c.sign_secret)

\* the calls of make_x_sign
SignCalls == [timestamp : SignTimes, token : SignTokens, login : BOOLEAN]
\* clients of smartgen_client.py, as far as the signature and the headers
\* read them, and the timestamps str(int(time.time() * 1000))
SignClients ==
    [token : {<<>>, <<Chr("1")>>, <<Chr("1"), Chr("2")>>},
     utoken : {<<>>, <<Chr("2")>>},
     sign_secret : {<<Chr("smartgen")>>, <<Chr("2"), Chr("smartgen")>>},
     cookie : {<<>>, <<Chr("c")>>}]
SignStamps == {<<Chr("1")>>, <<Chr("2"), Chr("1")>>}

\* two calls of make_x_sign
DoMakeXSignPair ==
    /\ nKind = "sign_pair" /\ nOut.op = "none"
    /\ nOut' = [op |-> "make_x_sign_pair",
                val |-> [a |-> make_x_sign(nIn.a.timestamp, nIn.a.token, nIn.a.login),
                         b |-> make_x_sign(nIn.b.timestamp, nIn.b.token, nIn.b.login)]]
    /\ UNCHANGED <<nKind, nIn, notNormVars>>

\* two calls of _build_signature, each on a client of its own
DoBuildSignaturePair ==
    /\ nKind = "client_pair" /\ nOut.op = "none"
    /\ nOut' = [op |-> "build_signature_pair",
                val |-> [a |-> build_signature(nIn.a.c, nIn.a.timestamp),
                         b |-> build_signature(nIn.b.c, nIn.b.timestamp)]]
    /\ UNCHANGED <<nKind, nIn, notNormVars>>

DoMakeXSign ==
    /\ nKind = "sign" /\ nOut.op = "none"
    /\ nOut' = [op |-> "make_x_sign",
                val |-> make_x_sign(nIn.timestamp, nIn.token, nIn.login)]
    /\ UNCHANGED <<nKind, nIn, notNormVars>>

CryptoInit ==
    /\ RestIdle
    /\ AuthIdle
    /\ PollIdle
    /\ SessIdle
    /\ nOut = [op |-> "none", val |-> PNone]
    /\ \/ nKind = "plaintext" /\ nIn \in PlainTexts
       \/ nKind = "bytes" /\ nIn \in ByteStrings
       \/ nKind = "object" /\ nIn \in JsonObjects
       \/ nKind = "decrypted" /\ nIn \in DecryptedTexts
       \/ nKind = "sign" /\ nIn \in SignCalls
       \/ nKind = "sign_pair" /\ nIn \in [a : SignCalls, b : SignCalls]
       \/ nKind = "client_pair"
            /\ nIn \in [a : [c : SignClients, timestamp : SignStamps],
                         b : [c : SignClients, timestamp : SignStamps]]

CryptoNext ==
    \/ DoPadUnpad \/ DoUnpad \/ DoSm4RoundTrip \/ DoSm4Decrypt
    \/ DoParamRoundTrip \/ DoDecryptParam \/ DoMakeXSign
    \/ DoMakeXSignPair \/ DoBuildSignaturePair

CryptoSpec == CryptoInit /\ [][CryptoNext]_vars

(***************************************************************************)
(* Claims about the auth retry of _post_encrypted                          *)
(***************************************************************************)
CallActive == stack # <<>>
ApiCallFinished == stack = <<>> /\ result.kind # "none" /\ nSent >= 1
IsRefreshFrame(f) == f.via \in {"refresh167", "refresh171"}

\* C1: a top-level non-login call against a session the server keeps
\* rejecting, with credentials configured, makes at most one re-login
\* attempt, sends the original request at most twice, and ends in an error.
C1_OneReloginThenError ==
    (HasCredentials /\ allRejected /\ nSent >= 1) =>
        /\ nRelogin <= 1
        /\ nSent <= 2
        /\ (ApiCallFinished => result.kind = "raised")

\* C2: every call of _post_encrypted in progress eventually returns or raises.
C2_CallTerminates == CallActive ~> ~CallActive

\* C3: a login request issued by _auto_refresh_token exists only above a
\* suspended frame that is not a login request and got an auth failure, and
\* only with username and password configured; a login frame never has a
\* re-login above it.
C3_ReloginOnlyWhenAllowed ==
    /\ \A i \in 1..Len(stack) :
          IsRefreshFrame(stack[i]) =>
            /\ i > 1
            /\ ~stack[i - 1].login
            /\ IsAuthFailure(stack[i - 1].resp)
            /\ username # "" /\ password # ""
            /\ stack[i].login
    /\ \A i \in 1..Len(stack) : stack[i].login => i = Len(stack)
    /\ (nRelogin > 0 => username # "" /\ password # "")

\* a re-login request was sent and answered
C3_Witness ==
    /\ Len(stack) = 2
    /\ IsRefreshFrame(Top)
    /\ Top.at = "l167"
    /\ IsAuthFailure(stack[1].resp)

(***************************************************************************)
(* Claims about the poll loop of main.py                                   *)
(***************************************************************************)
\* a poll cycle has ended: _tick returned, or an exception left it
CycleOver == (ppc = "tick" /\ cycle # "none") \/ ppc = "dead"
\* inside _sleep_with_heartbeat, after end was computed
InSleep == ppc \in {"sleep_test", "sleep_remaining", "sleeping"}
\* inside _sleep_with_heartbeat, or just out of it, after a time.sleep
AfterSleepChunk == chunks > 0 /\ ppc \in {"sleep_test", "sleeping", "tick"}

\* C4: no exception raised in a poll cycle leaves the polling loop.
C4_NoExceptionLeavesLoop == escaped = None /\ ppc # "dead"

\* C5: after each poll cycle failure_count is 0 when a snapshot was fetched
\* and published, and one more than before the cycle when the fetch was empty
\* or an exception was raised in the cycle; it changes in no other way and is
\* never negative.
C5_FailureCount ==
    [][ /\ failure_count' >= 0
        /\ failure_count' \in {failure_count, 0, failure_count + 1}
        /\ CycleOver' =>
              /\ (cycle' = "ok" => failure_count' = 0)
              /\ (cycle' \in {"empty", "exc"} => failure_count' = fcBefore' + 1)
      ]_vars

\* C6: the delay of a cycle is poll_interval after a success, and after 1, 2
\* and 3 or more consecutive failures 5, 10 and 30 seconds, each capped at
\* poll_interval; it never exceeds poll_interval.
C6_BackoffDelay ==
    InSleep =>
        /\ failure_count >= 0
        /\ (failure_count = 0 => delay = poll_interval)
        /\ (failure_count = 1 => delay = Min(5, poll_interval))
        /\ (failure_count = 2 => delay = Min(10, poll_interval))
        /\ (failure_count >= 3 => delay = Min(30, poll_interval))
        /\ delay <= poll_interval

\* the third step of the backoff is taken, below poll_interval
C6_Witness == InSleep /\ failure_count > 3 /\ delay = 30 /\ poll_interval > 30

\* C7: once _sleep_with_heartbeat has slept, at most 5 seconds have passed
\* since a heartbeat became due: the heartbeat is never later than
\* HEARTBEAT_INTERVAL + 5 seconds after the last one.
C7_HeartbeatWithinQuantum ==
    AfterSleepChunk => now - last_heartbeat <= HEARTBEAT_INTERVAL + 5

\* a heartbeat is due in the middle of a sleep that goes on
C7_Witness ==
    /\ ppc = "sleep_test" /\ chunks > 0 /\ now < endT
    /\ now - last_heartbeat >= HEARTBEAT_INTERVAL

(***************************************************************************)
(* Claims about the normalizers                                            *)
(***************************************************************************)
\* key k of mapping d is present, not null and not empty
Populated(d, k) == k \in DOMAIN d.v /\ d.v[k] \notin {PNone, PStr("")}

\* C8: every snapshot that fetch_snapshot or fetch_status returns is a
\* mapping with a populated device_id.
C8_DeviceIdPopulated ==
    (nOut.op \in {"fetch_snapshot", "fetch_status"} /\ ~IsRaise(nOut.val)) =>
        IsDict(nOut.val) /\ Populated(nOut.val, "device_id")

\* a value that counts alarms and is not zero
IsNonzeroCount(x) ==
    \/ x.t = "int" /\ x.v # 0
    \/ x.t = "bool" /\ x.v
    \/ x.t = "str" /\ ~IsRaise(IntOfStr(x.v)) /\ IntOfStr(x.v) # PInt(0)
IsNonEmptyList(x) == IsList(x) /\ Len(x.v) > 0

\* the state the precedence alarm > running > stopped gives a status mapping
PrecedenceState(alarm, running) ==
    IF alarm THEN "alarm" ELSE IF running THEN "running" ELSE "stopped"

\* C9: parse_status returns state_text 'alarm' when the alarm flag is true,
\* the alarm count is nonzero or the alarm list is non-empty, else 'running'
\* when the running flag is true, else 'stopped'.
C9_StatePrecedence ==
    nOut.op = "parse_status" =>
        /\ IsDict(nOut.val)
        /\ nOut.val.v.state_text =
             PStr(PrecedenceState(
                    \/ to_bool(Get(nIn, "alarm"))
                    \/ IsNonzeroCount(AlarmListOf(nIn))
                    \/ IsNonEmptyList(AlarmListOf(nIn)),
                    RunningOf(nIn)))

\* the payload carries one of the fields the status is derived from
HasStatusSignal(payload) ==
    DOMAIN payload.v \cap
      {"alarm", "alarm_present", "alarm_count", "alarms", "alarm_list",
       "running", "run_state", "is_running", "Run"} # {}

\* C10: _derive_status returns 'alarm' when the alarm flag is true, an alarm
\* count is nonzero or an alarm list (alarms, alarm_list) is non-empty, else
\* 'running' when the running flag is true, else 'stopped'; the free-text
\* status is the label only when the payload carries none of these fields.
C10_DeriveStatusPrecedence ==
    (nOut.op = "derive_status" /\ HasStatusSignal(nIn)) =>
        nOut.val =
          PStr(PrecedenceState(
                 \/ to_bool(Get(nIn, "alarm"))
                 \/ to_bool(Get(nIn, "alarm_present"))
                 \/ IsNonzeroCount(coalesce(nIn, <<"alarm_count", "alarms">>, PInt(0)))
                 \/ IsNonEmptyList(Get(nIn, "alarms"))
                 \/ IsNonEmptyList(Get(nIn, "alarm_list")),
                 to_bool(coalesce(nIn, <<"running", "run_state", "is_running", "Run">>,
                                  PBool(FALSE)))))

(***************************************************************************)
(* Claims about the session and its token file                             *)
(***************************************************************************)
NonEmpty(x) == x \notin {None, ""}
\* a stored field after a merge of non-empty fields only
Merged(old, new) == IF NonEmpty(new) THEN new ELSE old
\* the operation before the last one
PrevOp == IF Len(sop.hist) = 2 THEN sop.hist[1] ELSE "none"

\* C13: after login called _update_tokens(token, utoken), the stored token and
\* utoken are replaced only by a non-empty new value, an absent, null or
\* empty one leaves them unchanged, and the token file holds the merged pair.
C13_MergeNonEmptyThenPersist ==
    sop.op = "login" =>
        /\ token = Merged(sop.pairBefore[1], sop.tokArg)
        /\ utoken = Merged(sop.pairBefore[2], sop.utokArg)
        /\ file = SavedFile(token, utoken)

\* C14: after process start the session changes only through login or through
\* token fields of a response, and every change leaves the current pair in
\* the token file.
C14_SessionChangePersisted ==
    [][ <<token, utoken>>' # <<token, utoken>> =>
          \/ sop'.op = "start"
          \/ /\ sop'.op \in {"login", "main_update"}
             /\ file' = SavedFile(token', utoken')
      ]_vars

\* the token file is there and is no JSON object
IsCorrupt(f) == f.kind = "invalid" \/ (f.kind = "json" /\ ~IsDict(f.val))

\* C15: load_tokens and save_tokens never raise, whatever the token file
\* holds; with a missing or corrupted file nothing of the file enters the
\* session.
C15_LoadSaveNeverRaise ==
    client = "cloud" =>
        /\ ~sop.raised
        /\ (sop.op = "start" /\ (IsCorrupt(sop.fileBefore) \/ sop.fileBefore = NoFile)) =>
              <<token, utoken>> = sop.pairBefore

\* a process started on a token file that is no JSON
C15_Witness ==
    /\ sop.op = "start" /\ PrevOp = "login"
    /\ sop.fileBefore = CorruptFile

\* C16: save_tokens followed by load_tokens restores the pair that was saved,
\* and saving again what was loaded from a saved file leaves the file as it
\* was.
C16_SaveLoadRoundTrip ==
    /\ (sop.op = "start" /\ PrevOp = "login") => <<token, utoken>> = sop.saved
    /\ (/\ sop.op = "login" /\ PrevOp = "start"
        /\ <<token, utoken>> = sop.pairBefore
        /\ sop.fileBefore = SavedFile(token, utoken)) => file = sop.fileBefore

(***************************************************************************)
(* Claims about HTML responses                                             *)
(***************************************************************************)
\* the Content-Type contains text/html, or the body starts with '<'
LooksLikeHtml(r) ==
    \/ r.content_type \in {"text/html", "text/html; charset=utf-8"}
    \/ ~r.encrypted /\ r.ws = 0 /\ r.text # <<>> /\ r.text[1] = "<"

\* C11: _send_request and _parse_response hand no response that looks like
\* HTML to the JSON decoder or to the regex extraction; the result is the
\* failed, empty one.
C11_HtmlNeverDecoded ==
    (nOut.op \in {"send_request", "client_parse_response"} /\ LooksLikeHtml(nIn)) =>
        /\ ~nOut.val.json_tried
        /\ ~nOut.val.regex_tried
        /\ nOut.val.failed
        /\ nOut.val.val = EmptyDict

\* _send_request got a body that starts with '<' and holds a JSON object the
\* regex would find, under a JSON Content-Type
C11_Witness ==
    /\ nOut.op = "send_request"
    /\ nIn.content_type = "application/json"
    /\ nIn.text = <<"<", "{", "}">>
    /\ nIn.ws = 0

\* C12: _post_encrypted / _decode_response and the legacy _post take an HTTP
\* success that looks like HTML for an error and try no JSON parse on it.
C12_HtmlIsError ==
    (nOut.op \in {"decode_response", "legacy_post"} /\ nIn.status = 200 /\ LooksLikeHtml(nIn)) =>
        /\ ~nOut.val.json_tried
        /\ nOut.val.failed

(***************************************************************************)
(* Claims about the ciphers and the signature                              *)
(***************************************************************************)
\* PKCS#7: the last byte n is in 1..16 and the last n bytes are all n
ValidPadding(data) ==
    /\ data # <<>>
    /\ data[Len(data)] \in 1..16
    /\ data[Len(data)] <= Len(data)
    /\ \A i \in (Len(data) - data[Len(data)] + 1)..Len(data) : data[i] = data[Len(data)]

\* C17: decrypt(encrypt(P)) = P in both cipher profiles: sm4_decrypt after
\* sm4_encrypt, unpad after pad for every byte string, _decrypt_param after
\* _encrypt_param for every JSON object.
C17_DecryptInvertsEncrypt ==
    /\ nOut.op = "sm4_round_trip" => nOut.val = PStr(nIn)
    /\ nOut.op = "pad_unpad" => (nOut.val.ecb = Bytes(nIn) /\ nOut.val.cbc = Bytes(nIn))
    /\ nOut.op = "param_round_trip" => nOut.val = nIn

\* a plaintext with a letter of two bytes that fills one block exactly
C17_Witness ==
    /\ nOut.op = "sm4_round_trip"
    /\ Len(Utf8Encode(nIn)) = BlockSize
    /\ nIn[Len(nIn)] = 233

\* C18: in the ECB profile pkcs7_unpad, and with it sm4_decrypt, raises on
\* every decrypted byte string whose padding is not valid.
C18_EcbUnpadRejects ==
    (nOut.op \in {"pkcs7_unpad", "sm4_decrypt"} /\ ~ValidPadding(nIn)) => IsRaise(nOut.val)

\* a block whose last byte is a padding length and whose byte before is not
C18_Witness ==
    /\ nOut.op = "sm4_decrypt"
    /\ Len(nIn) = BlockSize
    /\ nIn[BlockSize] = 2 /\ nIn[BlockSize - 1] # 2

\* C19: in the CBC profile _decrypt_param gives the empty result for every
\* decrypted byte string whose padding is not valid.
C19_CbcUnpadRejects ==
    (nOut.op = "decrypt_param" /\ ~ValidPadding(nIn)) => nOut.val = EmptyDict

\* C20: make_x_sign is hash(token + timestamp + hash(token + timestamp +
\* secret)) for a non-empty token, hash(timestamp + hash(timestamp + secret))
\* for an empty or absent token with login, hash(timestamp + secret) for an
\* empty or absent token without login.
C20_SignatureCases ==
    nOut.op = "make_x_sign" =>
        LET ts == IntToStr(nIn.timestamp)
            absent == nIn.token \in {PNone, PStr(<<>>)}
        IN  /\ ~absent =>
                 nOut.val = md5_hex(nIn.token.v \o ts \o md5_hex(nIn.token.v \o ts \o SIGN_SECRET))
            /\ (absent /\ nIn.login) =>
                 nOut.val = md5_hex(ts \o md5_hex(ts \o SIGN_SECRET))
            /\ (absent /\ ~nIn.login) =>
                 nOut.val = md5_hex(ts \o SIGN_SECRET)

\* a request without token that is no login
C20_Witness ==
    /\ nOut.op = "make_x_sign"
    /\ nIn.token = PNone /\ ~nIn.login /\ nIn.timestamp = 1700

\* the token of a signature: None counts as the empty token
TokenValue(tok) == IF tok = PNone THEN <<>> ELSE tok.v

\* how many of the inputs of two calls of make_x_sign differ
SignDiffs(a, b) ==
    (IF TokenValue(a.token) # TokenValue(b.token) THEN 1 ELSE 0)
      + (IF a.timestamp # b.timestamp THEN 1 ELSE 0)
\* how many of the inputs of two calls of _build_signature differ
ClientDiffs(a, b) ==
    (IF a.c.token # b.c.token THEN 1 ELSE 0)
      + (IF a.c.utoken # b.c.utoken THEN 1 ELSE 0)
      + (IF a.timestamp # b.timestamp THEN 1 ELSE 0)
      + (IF a.c.sign_secret # b.c.sign_secret THEN 1 ELSE 0)

\* C21 as stated: two signatures are equal when token, [utoken,] timestamp
\* and secret are equal, whatever else differs, and differ when exactly one
\* of these inputs differs.
C21_SignaturePureAsStated ==
    /\ nOut.op = "make_x_sign_pair" =>
          /\ SignDiffs(nIn.a, nIn.b) = 0 => nOut.val.a = nOut.val.b
          /\ SignDiffs(nIn.a, nIn.b) = 1 => nOut.val.a # nOut.val.b
    /\ nOut.op = "build_signature_pair" =>
          /\ ClientDiffs(nIn.a, nIn.b) = 0 => nOut.val.a = nOut.val.b
          /\ ClientDiffs(nIn.a, nIn.b) = 1 => nOut.val.a # nOut.val.b

\* C21, amended: the login flag is an input of make_x_sign. Two signatures
\* of make_x_sign are equal when token, timestamp and login flag are equal,
\* two of _build_signature when token, utoken, timestamp and secret are
\* equal, whatever the other state of the client; they differ when exactly
\* one of token, [utoken,] timestamp, secret differs and the login flag is
\* the same.
C21_SignaturePure ==
    /\ (nOut.op = "make_x_sign_pair" /\ nIn.a.login = nIn.b.login) =>
          /\ SignDiffs(nIn.a, nIn.b) = 0 => nOut.val.a = nOut.val.b
          /\ SignDiffs(nIn.a, nIn.b) = 1 => nOut.val.a # nOut.val.b
    /\ nOut.op = "build_signature_pair" =>
          /\ ClientDiffs(nIn.a, nIn.b) = 0 => nOut.val.a = nOut.val.b
          /\ ClientDiffs(nIn.a, nIn.b) = 1 => nOut.val.a # nOut.val.b

\* two clients that differ in the cookie and in nothing the signature reads
C21_Witness ==
    /\ nOut.op = "build_signature_pair"
    /\ ClientDiffs(nIn.a, nIn.b) = 0
    /\ nIn.a.c.cookie # nIn.b.c.cookie
    /\ nIn.a.c.token # <<>>

(***************************************************************************)
(* Claims about candidate extraction, coalesce and to_bool                 *)
(***************************************************************************)
\* the candidate of a mapping body as the claim has it; dec is the decrypted
\* and re-parsed "data"
ClaimedCandidate(body, dec) ==
    LET inner == Get(body, "data")
    IN  IF IsDict(inner) THEN inner
        ELSE IF IsList(inner) /\ Truthy(inner) THEN inner.v[1]
        ELSE IF IsStr(inner) THEN dec
        ELSE body

\* C25: for a mapping body whose candidate is a mapping, _normalize_payload
\* and fetch_status return that candidate (with device_id set when it has
\* none): body['data'] when it is a mapping, its first element when it is a
\* non-empty sequence, the decrypted and re-parsed JSON when it is an
\* encrypted string, the whole body otherwise.
C25_CandidateExtraction ==
    /\ (nOut.op = "normalize_payload" /\ IsDict(nIn.body)
          /\ IsDict(ClaimedCandidate(nIn.body, nIn.dec))) =>
            nOut.val = SetDefault(ClaimedCandidate(nIn.body, nIn.dec), "device_id",
                                  PStr(nIn.device_id))
    /\ (nOut.op = "fetch_status" /\ nIn.session # "login_raises" /\ nIn.address # ""
          /\ nIn.resp.sent /\ ~nIn.resp.html /\ IsDict(nIn.resp.body)
          /\ IsDict(ClaimedCandidate(nIn.resp.body, nIn.dec))) =>
            nOut.val = SetDefault(ClaimedCandidate(nIn.resp.body, nIn.dec), "device_id",
                                  PStr(nIn.address))

\* the key is in the mapping with a value that is not null and not ""
Present(data, key) == key \in DOMAIN data.v /\ data.v[key] \notin {PNone, PStr("")}
\* the places of keys that are present in data
PresentAt(data, keys) == {i \in 1..Len(keys) : Present(data, keys[i])}
\* the value of the first present key, or the default
FirstPresent(data, keys, default) ==
    IF PresentAt(data, keys) = {} THEN default
    ELSE data.v[keys[CHOOSE i \in PresentAt(data, keys) :
                       \A j \in PresentAt(data, keys) : i <= j]]

\* C26: coalesce and _coalesce return the value of the first key, in the
\* order of keys, that is present with a value neither null nor "" (0 and
\* false are values), and the default when there is none; with 'rpm' and
\* 'RPM' both present parse_status reports the value of 'rpm'.
C26_CoalesceFirstPresent ==
    /\ nOut.op = "coalesce" =>
          /\ nOut.val.bridge = FirstPresent(nIn.data, nIn.keys, nIn.default)
          /\ nOut.val.main = FirstPresent(nIn.data, nIn.keys, nIn.default)
    /\ (nOut.op = "parse_status" /\ nKind = "rpm_status"
          /\ Present(nIn, "rpm") /\ Present(nIn, "RPM")) =>
            nOut.val.v.rpm = nIn.v["rpm"]

\* the first key holds 0, a later key another value
C26_Witness ==
    /\ nOut.op = "coalesce"
    /\ Len(nIn.keys) > 1 /\ nIn.keys[1] = "rpm"
    /\ Present(nIn.data, "RPM")
    /\ "rpm" \in DOMAIN nIn.data.v /\ nIn.data.v["rpm"] = PInt(0)
    /\ nOut.val.bridge = PInt(0)

\* the strings that are true
ClaimedTrue == {"true", "1", "on", "yes"}

\* C27: to_bool and _to_bool agree; a boolean is returned unchanged, a
\* number is true iff it is not zero, a string iff its lower-case form is
\* one of 'true', '1', 'on', 'yes', every other value is false.
C27_BooleanCoercion ==
    nOut.op = "to_bool" =>
        /\ nOut.val.bridge = nOut.val.main
        /\ nIn.t = "bool" => nOut.val.bridge = nIn.v
        /\ nIn.t \in {"int", "float"} => nOut.val.bridge = (nIn.v # 0)
        /\ nIn.t = "str" => nOut.val.bridge = (Lower(nIn.v) \in ClaimedTrue)
        /\ nIn.t \in {"null", "list", "dict"} => nOut.val.bridge = FALSE

\* a string that is true in upper case only
C27_Witness ==
    /\ nOut.op = "to_bool"
    /\ nIn = PStr("YES")
    /\ nOut.val.bridge /\ nOut.val.main

(***************************************************************************)
(* Claims about the order and the liveness of the poll cycle               *)
(***************************************************************************)
\* C28: after any poll cycle, succeeded or failed, the loop goes on to a
\* further fetch: whenever a cycle is over, start is about to call _tick
\* again.
C28_LoopGoesOn == CycleOver => ppc = "tick"

\* C30: in each poll cycle the device state is published only after the
\* fetch of that cycle returned a non-empty snapshot, and it is that
\* snapshot; the sleep of the cycle has the backoff duration of the failure
\* count as the cycle left it, and starts when the try block ends; the next
\* cycle starts only after that sleep.
C30_CycleOrder ==
    /\ published # PNone =>
          /\ fetched = published
          /\ IsDict(fetched) /\ DOMAIN fetched.v # {}
          /\ fetched.v["at"].v <= now /\ fetched.v["at"].v + delay = endT
    /\ InSleep =>
          /\ failure_count = (IF cycle = "ok" THEN 0 ELSE fcBefore + 1)
          /\ delay = BackoffDelay(failure_count, poll_interval)
          /\ (cycle = "ok") = (published # PNone /\ failure_count = 0)
    /\ ppc \in {"tick", "fetch"} => now >= endT

\* a cycle that published its snapshot and slept is over
C30_Witness ==
    /\ ppc = "tick" /\ cycle = "ok" /\ chunks > 1
    /\ published # PNone /\ fcBefore > 0

(***************************************************************************)
(* Claims about the headers of _post_encrypted                             *)
(***************************************************************************)
\* C29: every request of _post_encrypted, the retry after a re-login
\* included, carries in X-Time the time at which it is sent, and in X-Sign
\* the signature of that timestamp and of the token it carries in X-Token.
C29_FreshTimestampAndSignature ==
    request # NoSent =>
        /\ request.headers.x_time = IntToStr(request.at)
        /\ request.headers.x_sign =
              make_x_sign(request.at, SignToken(request.headers.x_token), request.login)

\* the retry after a re-login, sent later than the first attempt
C29_Witness ==
    /\ request # NoSent /\ ~request.login
    /\ request.at > 0
    /\ nRelogin >= 1 /\ nSent >= 2
    /\ request.headers.x_token = "t1"

(***************************************************************************)
(* Two callers of one SmartGenCloudBridge: one inside _update_tokens, one  *)
(* inside _authorized_payload.  The class holds no lock, so the steps of   *)
(* the two callers interleave statement by statement.                      *)
(***************************************************************************)
MaxUpdates == 2

\* what login hands to _update_tokens: data.get("token") or
\* data.get("accessToken"), data.get("utoken") or data.get("refreshToken")
UpdateTokens == {None, "t1", "t2"}
UpdateUtokens == {None, "u1", "u2"}

\* nothing read yet, no update in progress
NotRead == [token |-> None, utoken |-> None]

\* the session that the update in progress leaves when it returns
SessionAfter(u) == <<UpdatedToken(u.token), UpdatedUtoken(u.utoken)>>

\* the sessions a payload can be built from: those that an update has left,
\* and the one that the update in progress is about to leave
ConsistentSessions ==
    sessions \cup (IF upc \in {"l189", "l191", "l193"} THEN {SessionAfter(update)} ELSE {})

\* login, line 205: _update_tokens is entered with the tokens of a response
UpdateCall ==
    /\ upc = "idle" /\ nUpdates < MaxUpdates
    /\ \E tok \in UpdateTokens, utok \in UpdateUtokens :
         update' = [token |-> tok, utoken |-> utok]
    /\ upc' = "l189" /\ nUpdates' = nUpdates + 1
    /\ UNCHANGED <<token, utoken, rpc, reading, sessions>>
    /\ UNCHANGED <<username, password, stack, result, nRelogin, nSent, allRejected,
                   clock, request, pollVars, normVars, sessVars, retryVars, logVars>>

\* lines 189-190: if token: self.token = token
UpdateToken ==
    /\ upc = "l189"
    /\ token' = UpdatedToken(update.token)
    /\ upc' = "l191"
    /\ UNCHANGED <<utoken, update, rpc, reading, sessions, nUpdates>>
    /\ UNCHANGED <<username, password, stack, result, nRelogin, nSent, allRejected,
                   clock, request, pollVars, normVars, sessVars, retryVars, logVars>>

\* lines 191-192: if utoken is not None: self.utoken = utoken
UpdateUtoken ==
    /\ upc = "l191"
    /\ utoken' = UpdatedUtoken(update.utoken)
    /\ upc' = "l193"
    /\ UNCHANGED <<token, update, rpc, reading, sessions, nUpdates>>
    /\ UNCHANGED <<username, password, stack, result, nRelogin, nSent, allRejected,
                   clock, request, pollVars, normVars, sessVars, retryVars, logVars>>

\* line 193: save_tokens (the file is left out), and the return
UpdateSave ==
    /\ upc = "l193"
    /\ sessions' = sessions \cup {<<token, utoken>>}
    /\ upc' = "idle" /\ update' = NotRead
    /\ UNCHANGED <<token, utoken, rpc, reading, nUpdates>>
    /\ UNCHANGED <<username, password, stack, result, nRelogin, nSent, allRejected,
                   clock, request, pollVars, normVars, sessVars, retryVars, logVars>>

\* _authorized_payload, line 179: "token": self.token
ReadToken ==
    /\ rpc = "idle"
    /\ reading' = [token |-> token, utoken |-> None]
    /\ rpc' = "l180"
    /\ UNCHANGED <<token, utoken, upc, update, sessions, nUpdates>>
    /\ UNCHANGED <<username, password, stack, result, nRelogin, nSent, allRejected,
                   clock, request, pollVars, normVars, sessVars, retryVars, logVars>>

\* _authorized_payload, line 180: "utoken": self.utoken, and the payload
\* is built
ReadUtoken ==
    /\ rpc = "l180"
    /\ reading' = [reading EXCEPT !.utoken = utoken]
    /\ rpc' = "idle"
    /\ UNCHANGED <<token, utoken, upc, update, sessions, nUpdates>>
    /\ UNCHANGED <<username, password, stack, result, nRelogin, nSent, allRejected,
                   clock, request, pollVars, normVars, sessVars, retryVars, logVars>>

\* a bridge with the session of an earlier login, and two callers outside
\* of their methods
ConcInit ==
    /\ PollIdle
    /\ NormIdle
    /\ SessIdle
    /\ RetryIdle
    /\ LogIdle
    /\ username = "user" /\ password = "pass"
    /\ token = "t0" /\ utoken = "u0"
    /\ stack = <<>> /\ result = NoResult
    /\ nRelogin = 0 /\ nSent = 0 /\ allRejected = TRUE
    /\ clock = 0 /\ request = NoSent
    /\ upc = "idle" /\ rpc = "idle"
    /\ update = NotRead /\ reading = NotRead
    /\ sessions = {<<"t0", "u0">>}
    /\ nUpdates = 0

ConcNext ==
    UpdateCall \/ UpdateToken \/ UpdateUtoken \/ UpdateSave \/ ReadToken \/ ReadUtoken

ConcSpec == ConcInit /\ [][ConcNext]_vars

\* C22: a caller that builds a request from the session while an update of
\* the session runs never builds it from two sessions: the token and the
\* utoken of every payload that _authorized_payload has built are those of
\* one session, the one that some update left or the one that the update in
\* progress leaves.
C22_NoTornSession ==
    (rpc = "idle" /\ reading # NotRead) =>
        <<reading.token, reading.utoken>> \in ConsistentSessions

(***************************************************************************)
(* The poll loop of smartgen_bridge.py and the get_status of its client    *)
(***************************************************************************)
MaxLoopTime == 12

\* smartgen_bridge.DEFAULT_POLL_INTERVAL, in seconds
LegacyPollInterval == 3

\* for attempt in range(3)
Attempts == 3

\* 2 ** attempt
Pow2(n) == IF n = 0 THEN 1 ELSE IF n = 1 THEN 2 ELSE 4

\* how a call of SmartGenClient._post ends: session.post raises a transport
\* failure or a timeout, raise_for_status raises for the HTTP status,
\* response.json() raises, or the parsed body is returned
PostOutcomes == {"network", "http", "nonjson", "json"}

\* _post returns None unless the body was parsed
PostResult(outcome) == IF outcome = "json" THEN "json" ELSE None

notRetryVars == <<authVars, pollVars, normVars, sessVars, concVars, logVars>>

\* get_status, lines 53-56: _post(STATUS_URL, {}) is called; with a result
\* get_status returns it, loop publishes the status and goes to sleep
LegacyPost ==
    /\ lpc = "post"
    /\ \E outcome \in PostOutcomes :
         /\ posts' = Append(posts, [at |-> ltime, outcome |-> outcome])
         /\ lstatus' = PostResult(outcome)
         /\ lpc' = IF PostResult(outcome) # None THEN "sleep" ELSE "backoff"
    /\ UNCHANGED <<attempt, ltime, cmdVars, notRetryVars>>

\* get_status, lines 57-60: time.sleep(2 ** attempt), then the next attempt,
\* or the return of None after the last one
LegacyBackoff ==
    /\ lpc = "backoff"
    /\ ltime + Pow2(attempt) <= MaxLoopTime
    /\ ltime' = ltime + Pow2(attempt)
    /\ IF attempt + 1 < Attempts
         THEN attempt' = attempt + 1 /\ lpc' = "post"
         ELSE attempt' = attempt /\ lpc' = "sleep"
    /\ UNCHANGED <<lstatus, posts, cmdVars, notRetryVars>>

\* loop, line 362: time.sleep(self.poll_interval), and the next cycle begins
LegacySleep ==
    /\ lpc = "sleep"
    /\ ltime + LegacyPollInterval <= MaxLoopTime
    /\ ltime' = ltime + LegacyPollInterval
    /\ lpc' = "post" /\ attempt' = 0 /\ lstatus' = None /\ posts' = <<>>
    /\ UNCHANGED <<cmdVars, notRetryVars>>

\* config.get("mqtt_base_topic", "smartgen")
mqtt_base == "smartgen"

\* base_topic, lines 109-111: f"{self.mqtt_base}/{self.address}", a topic
\* being the sequence of its levels
base_topic == <<mqtt_base, genset_address>>

\* the commands of command_map and the actions they stand for, lines 96-103
CommandNames ==
    <<"start", "stop", "auto", "manual", "genset_closeopen", "mains_closeopen">>
CommandActs ==
    <<"start", "stop", "auto", "manual", "gensetcloseopen", "maincloseopen">>

\* self.command_map
command_map ==
    [i \in 1..Len(CommandNames) |->
        [key |-> base_topic \o <<"command", CommandNames[i]>>, act |-> CommandActs[i]]]

\* a lookup that goes by the last level of the topic
command_map_get_by_name(t) ==
    IF \E i \in DOMAIN command_map : t # <<>> /\ command_map[i].key[4] = t[Len(t)]
      THEN command_map[CHOOSE i \in DOMAIN command_map :
                          command_map[i].key[4] = t[Len(t)]].act
      ELSE None

\* self.command_map.get(topic)
command_map_get(t) ==
    IF \E i \in DOMAIN command_map : command_map[i].key = t
      THEN command_map[CHOOSE i \in DOMAIN command_map : command_map[i].key = t].act
      ELSE None

\* the topics of the messages that the broker hands to on_message
Topics ==
    {<<mqtt_base, a, "command", c>> :
        a \in {"", "1"}, c \in {"start", "stop", "auto", "manual", "genset_closeopen",
                                 "mains_closeopen", "START", "restart"}}
    \cup {<<mqtt_base, "1", "command">>, <<mqtt_base, "1", "command", "start", "now">>,
          <<"other", "1", "command", "stop">>, <<mqtt_base, "1", "status", "auto">>}

\* on_message, lines 186-192, on the thread of the MQTT client: the action
\* of the topic, if it has one, goes to send_action, which posts it once
OnMessage ==
    /\ lpc # "off"
    /\ \E t \in Topics :
         /\ topic' = t
         /\ acted' = IF command_map_get(t) # None THEN <<command_map_get(t)>> ELSE <<>>
    /\ UNCHANGED <<lpc, attempt, ltime, lstatus, posts, genset_address, notRetryVars>>

\* loop is entered
RetryInit ==
    /\ AuthIdle
    /\ PollIdle
    /\ NormIdle
    /\ SessIdle
    /\ ConcIdle
    /\ LogIdle
    /\ lpc = "post" /\ attempt = 0 /\ ltime = 0 /\ lstatus = None /\ posts = <<>>
    /\ genset_address \in {"", "1", "2"} /\ topic = <<>> /\ acted = <<>>

RetryNext == LegacyPost \/ LegacyBackoff \/ LegacySleep \/ OnMessage

RetrySpec == RetryInit /\ [][RetryNext]_vars

\* C23: a transport failure or a timeout of an HTTP call is not retried in
\* the same poll cycle: the request that ended in it is the last request of
\* its cycle, the next one is sent after the sleep of the cycle.
C23_NoRetryInCycle ==
    \A i \in 1..Len(posts) : posts[i].outcome = "network" => i = Len(posts)

(***************************************************************************)
(* What smartgen_client.SmartGenClient hands to logging.  In this part     *)
(* username, password, token and utoken are the fields of that client.  A  *)
(* message is the line that logs it and the strings that its text shows.   *)
(***************************************************************************)
Msg(line, shows) == [line |-> line, shows |-> shows]

\* the answers to the login request: no answer, an HTML page, or a JSON body
\* that carries the tokens in data as a dict, in data as an encrypted
\* string, or at the top level; a token of None is a key left out
LoginBodies ==
    {[kind |-> "network", token |-> None, utoken |-> None],
     [kind |-> "html", token |-> None, utoken |-> None]}
    \cup [kind : {"dict", "cipher", "top"}, token : {None, "t1"}, utoken : {None, "u1"}]

\* the answers to the status request
StatusBodies == {"network", "html", "json"}

\* snippet = response.text[:500] of a login answer: the strings that can be
\* read in it
TextOf(resp) ==
    CASE resp.kind = "html" -> {"<html>"}
      [] resp.kind = "cipher" -> {"ciphertext"}
      [] OTHER -> {resp.token, resp.utoken} \ {None}

\* _headers(timestamp): X-Token, X-Time and X-Sign are sent with a timestamp
ClientHeaders(tok, timestamp) ==
    {[key |-> "User-Agent", value |-> "okhttp"], [key |-> "Accept", value |-> "json"]}
    \cup (IF timestamp
            THEN {[key |-> "X-Token", value |-> tok],
                  [key |-> "X-Time", value |-> "time"],
                  [key |-> "X-Sign", value |-> "md5"]}
            ELSE {})

\* "token" in k.lower()
KeyNamesToken(key) == key = "X-Token"

\* {k: ("***" if "token" in k.lower() else v) for k, v in headers.items()}
SafeHeaders(headers) ==
    {IF KeyNamesToken(h.key) THEN "***" ELSE h.value : h \in headers}

\* login, lines 153-178, of a client with the session tok, utok and the log
\* lg: the session, the log and the exception it ends with
client_login(tok, utok, lg, resp) ==
    IF username = "" \/ password = ""
      THEN [token |-> tok, utoken |-> utok, exc |-> None,
            logs |-> lg \cup {Msg(155, {})}]
      ELSE
        LET posted == lg \cup {Msg(116, SafeHeaders(ClientHeaders(tok, FALSE)))}
            parsed == posted \cup {Msg(141, TextOf(resp))}
            new_token == IF resp.token # None THEN resp.token ELSE tok
            new_utoken == IF resp.utoken # None THEN resp.utoken ELSE utok
        IN  IF resp.kind = "network"
              THEN [token |-> tok, utoken |-> utok, exc |-> "RequestException",
                    logs |-> posted \cup {Msg(121, {})}]
            ELSE IF resp.kind = "html"
              THEN [token |-> tok, utoken |-> utok, exc |-> "RuntimeError",
                    logs |-> parsed \cup {Msg(144, {})}]
            ELSE IF new_token = "" \/ new_utoken = ""
              THEN [token |-> new_token, utoken |-> new_utoken, exc |-> "RuntimeError",
                    logs |-> parsed]
            ELSE [token |-> new_token, utoken |-> new_utoken, exc |-> None,
                  logs |-> parsed \cup {Msg(178, {})}]

\* ensure_logged_in, lines 180-183
ensure_logged_in(tok, utok, lg, resp) ==
    IF tok # "" /\ utok # ""
      THEN [token |-> tok, utoken |-> utok, exc |-> None, logs |-> lg]
      ELSE client_login(tok, utok, lg, resp)

\* no login in the last operation
NoLogin == [called |-> FALSE, token |-> None, utoken |-> None, exc |-> None]

\* login was called with the session tok, utok and ended as s says
LoginCall(tok, utok, s) == [called |-> TRUE, token |-> tok, utoken |-> utok, exc |-> s.exc]

\* fetch_status, lines 205-223, of a client with an address: the log after
\* the status request of the session s
StatusLogs(s, status) ==
    LET posted == s.logs \cup {Msg(128, SafeHeaders(ClientHeaders(s.token, TRUE)))}
    IN  CASE status = "network" -> posted \cup {Msg(134, {})}
          [] status = "html" -> posted \cup {Msg(141, {"<html>"}), Msg(144, {})}
          [] OTHER -> posted \cup {Msg(141, {"status"})}

notLogVars == <<stack, result, nRelogin, nSent, allRejected, clock, request,
                pollVars, normVars, sessVars, concVars, retryVars>>

\* SmartGenClient.login()
ClientLogin ==
    /\ \E resp \in LoginBodies :
         LET s == client_login(token, utoken, logs, resp)
         IN  /\ token' = s.token /\ utoken' = s.utoken /\ logs' = s.logs
             /\ last_login' = LoginCall(token, utoken, s)
    /\ UNCHANGED <<username, password, notLogVars>>

\* SmartGenClient.fetch_status()
ClientFetchStatus ==
    /\ \E resp \in LoginBodies, status \in StatusBodies :
         LET s == ensure_logged_in(token, utoken, logs, resp)
         IN  /\ token' = s.token /\ utoken' = s.utoken
             /\ logs' = IF s.exc # None THEN s.logs ELSE StatusLogs(s, status)
             /\ last_login' = IF token # "" /\ utoken # ""
                                THEN NoLogin ELSE LoginCall(token, utoken, s)
    /\ UNCHANGED <<username, password, notLogVars>>

\* SmartGenClient.__init__, lines 56-62: the session of the configuration
LogInit ==
    /\ PollIdle
    /\ NormIdle
    /\ SessIdle
    /\ ConcIdle
    /\ RetryIdle
    /\ username \in {"", "user"} /\ password = "pass"
    /\ token \in {"", "t0"} /\ utoken \in {"", "u0"}
    /\ stack = <<>> /\ result = NoResult
    /\ nRelogin = 0 /\ nSent = 0 /\ allRejected = TRUE
    /\ clock = 0 /\ request = NoSent
    /\ logs = {} /\ last_login = NoLogin

LogNext == ClientLogin \/ ClientFetchStatus

LogSpec == LogInit /\ [][LogNext]_vars

\* the text of the message shows the value
Mentions(m, value) == value # "" /\ value \in m.shows

\* C24: no message that the client has logged, at any level, shows the
\* token or the utoken of the current session in plaintext.
C24_NoTokenInLogs ==
    \A m \in logs : ~Mentions(m, token) /\ ~Mentions(m, utoken)

(***************************************************************************)
(* Claims about the commands of smartgen_bridge.py                         *)
(***************************************************************************)
\* the six command topics of a bridge, and the action of each
MappedTopics ==
    {<<"smartgen", genset_address, "command", c>> :
        c \in {"start", "stop", "auto", "manual", "genset_closeopen", "mains_closeopen"}}

MappedAction(t) ==
    CASE t[4] = "genset_closeopen" -> "gensetcloseopen"
      [] t[4] = "mains_closeopen" -> "maincloseopen"
      [] OTHER -> t[4]

\* C31: a message whose topic is exactly one of the six command topics
\* makes exactly one send_action call, with the action of that topic; a
\* message on any other topic makes none.
C31_CommandByExactTopic ==
    topic # <<>> =>
        acted = IF topic \in MappedTopics THEN <<MappedAction(topic)>> ELSE <<>>

\* a command was forwarded while the poll cycle was under way
C31_Witness ==
    /\ topic \in MappedTopics /\ topic[4] = "mains_closeopen"
    /\ acted = <<"maincloseopen">>
    /\ posts # <<>>

(***************************************************************************)
(* Claims about the request that follows a re-login                        *)
(***************************************************************************)
\* C32: the request sent again after a re-login carries the session of that
\* re-login everywhere: in X-Token, in the signature, and as token and
\* utoken of its body.
C32_RetryCarriesNewSession ==
    (request # NoSent /\ request.retry) =>
        /\ request.headers.x_token = request.session.token
        /\ request.headers.x_sign =
              make_x_sign(request.at, SignToken(request.session.token), FALSE)
        /\ request.body = request.session

\* C33: _post_encrypted never returns a response that it took for an auth
\* failure (HTTP 401, or a body with both "token" and "invalid"): without a
\* retry that succeeds the call raises, and the caller never gets the body
\* of the auth failure as data.
C33_AuthFailureNeverReturned ==
    (ApiCallFinished /\ result.kind = "returned") => ~IsAuthFailure(result.resp)

\* C34: a login that raises leaves the token and the utoken of the session
\* as they were before the call, and a login that returns, with username and
\* password configured, leaves both of them non-empty.
C34_FailedLoginKeepsSession ==
    last_login.called =>
        /\ last_login.exc # None => (token = last_login.token /\ utoken = last_login.utoken)
        /\ (last_login.exc = None /\ username # "" /\ password # "") =>
              (token # "" /\ utoken # "")

(***************************************************************************)
(* Claims about _sleep_with_heartbeat                                      *)
(***************************************************************************)
\* C35: every length that _sleep_with_heartbeat hands to time.sleep is
\* between 0 and 5 seconds, whatever the duration and however the clock
\* goes on between the loop test and the reading for remaining.
C35_SleepLengthInRange ==
    ppc = "sleeping" =>
        (0 <= SleepLength(remaining) /\ SleepLength(remaining) <= 5)

(***************************************************************************)
(* Claims about parse_status on malformed input                            *)
(***************************************************************************)
\* the fields of the record that parse_status returns
ParsedFields ==
    {"rpm", "frequency_hz", "voltage_l1_l2", "voltage_l2_l3", "voltage_l3_l1", "kw",
     "run_hours", "alarm_count", "alarm_present", "running", "auto_mode",
     "manual_mode", "mains_available", "genset_breaker_closed",
     "mains_breaker_closed", "state_text"}

\* C36: for every status mapping, whatever the types of its values,
\* parse_status raises no exception and returns a record with all sixteen
\* fields.
C36_ParseStatusTotal ==
    nOut.op = "parse_status" =>
        (IsDict(nOut.val) /\ DOMAIN nOut.val.v = ParsedFields)

====
